---- MODULE Spec2Model ----
(***************************************************************************)
(* A model of the EvolSynth generation and evaluation services.           *)
(*                                                                         *)
(*   Spec         a generation request: generate_synthetic_data_async      *)
(*                (standard pipeline) or generate_synthetic_data_fast,     *)
(*                with the result cache as an earlier request left it      *)
(*   FairSpec     Spec with the fairness of the event loop and worker pool *)
(*   SpecContext  a call of _extract_contexts_sync or _extract_contexts_fast*)
(*   SpecEval     the evaluation service: evaluate_synthetic_data          *)
(*   SpecKey      the cache key derivation: _generate_cache_key            *)
(*                                                                         *)
(* Texts are sequences of chunks (words separated by white space; the     *)
(* chunk "FILL" stands for a block of 450 characters of prose that holds   *)
(* none of the vocabulary's words).  A fixed string of the source is a     *)
(* text of one chunk.                                                      *)
(***************************************************************************)
EXTENDS Integers, Sequences, FiniteSets, TLC

\* ------------------------------------------------------------ bounds
MaxDocs == 2        \* documents in a request
MaxEvolved == 2     \* the configured evolution counts add up to this at most
MaxLines == 3       \* lines of the fast-mode LLM response

\* ------------------------------------------------------------ generic helpers
Min(a, b) == IF a < b THEN a ELSE b

Max(a, b) == IF a > b THEN a ELSE b

RECURSIVE SumSeq(_)
SumSeq(s) == IF s = <<>> THEN 0 ELSE Head(s) + SumSeq(Tail(s))

RECURSIVE Flatten(_)
Flatten(ss) == IF ss = <<>> THEN <<>> ELSE Head(ss) \o Flatten(Tail(ss))

\* s[:n]
Take(s, n) == SubSeq(s, 1, Min(n, Len(s)))

\* the sequences over S of length 0..n
SeqsUpTo(S, n) == UNION {[1..k -> S] : k \in 0..n}

SelectIdx(s, P(_)) == {i \in 1..Len(s) : P(s[i])}

\* ------------------------------------------------------------ texts
\* A chunk is a word with the punctuation mark that follows it ("" for none).
W(w) == [w |-> w, p |-> ""]

WP(w, p) == [w |-> w, p |-> p]

\* str.lower() on the words of the vocabulary
Lower(w) ==
    CASE w = "What" -> "what"
      [] w = "Why" -> "why"
      [] w = "Borovia" -> "borovia"
      [] w = "Question" -> "question"
      [] w = "Answer" -> "answer"
      [] w = "Result" -> "result"
      [] w = "Here's" -> "here's"
      [] w = "Zeta" -> "zeta"
      [] w = "That" -> "that"
      [] OTHER -> w

\* len() of a lower-case word of the vocabulary; FILL is a block of prose
WordLen(w) ==
    CASE w = "FILL" -> 450
      [] w \in {"is", "it"} -> 2
      [] w \in {"why"} -> 3
      [] w \in {"what", "zeta", "that"} -> 4
      [] w \in {"small", "which"} -> 5
      [] w \in {"answer", "result", "here's"} -> 6
      [] w \in {"borovia"} -> 7
      [] w \in {"question"} -> 8
      [] OTHER -> 5

Width(c) == WordLen(Lower(c.w)) + (IF c.p = "" THEN 0 ELSE 1)

\* len(text): the chunks and one blank between two of them
RECURSIVE CharLen(_)
CharLen(t) ==
    IF t = <<>> THEN 0
    ELSE Width(Head(t)) + (IF Len(t) > 1 THEN 1 ELSE 0) + CharLen(Tail(t))

\* the offset of chunk i in the text
Offset(t, i) == IF i = 1 THEN 0 ELSE CharLen(SubSeq(t, 1, i - 1)) + 1

common_words ==
    {"what", "how", "why", "when", "where", "who", "which", "is", "are",
     "the", "a", "an", "and", "or", "but", "in", "on", "at", "to", "for",
     "of", "with", "by"}

\* word.lower().strip('?.,!'): a term keeps a colon, the other marks go
StripWord(c) ==
    [w |-> Lower(c.w), p |-> IF c.p \in {"?", ".", ",", "!"} THEN "" ELSE c.p]

TermLen(t) == WordLen(t.w) + (IF t.p = "" THEN 0 ELSE 1)

\* set(word.lower().strip('?.,!') for word in question.split()) - common_words
KeyTerms(question) ==
    {StripWord(question[i]) : i \in 1..Len(question)}
        \ {[w |-> cw, p |-> ""] : cw \in common_words}

\* term in chunk.lower(): no word of the vocabulary is inside another one
ChunkHas(c, term) ==
    /\ c.w # "FILL"
    /\ Lower(c.w) = term.w
    /\ term.p = "" \/ c.p = term.p

\* content_lower.count(term)
TermCount(content, term) ==
    Cardinality({i \in 1..Len(content) : ChunkHas(content[i], term)})

\* content_lower.find(term), for a term that occurs
TermFind(content, term) ==
    LET i == CHOOSE k \in 1..Len(content) :
                 /\ ChunkHas(content[k], term)
                 /\ \A j \in 1..(k - 1) : ~ChunkHas(content[j], term)
    IN Offset(content, i)

_is_content_relevant(question, content) ==
    IF question = <<>> \/ content = <<>> THEN FALSE
    ELSE \E term \in KeyTerms(question) :
            TermLen(term) > 2 /\ TermCount(content, term) > 0

\* the score of one key term: frequency (capped) and the early-position bonus
TermScore(content, term) ==
    IF TermCount(content, term) = 0 THEN 0
    ELSE Min(TermCount(content, term) * 2, 10)
         + (IF TermFind(content, term) < 200 THEN 3
            ELSE IF TermFind(content, term) < 500 THEN 1 ELSE 0)

RECURSIVE SumTermScores(_, _)
SumTermScores(content, terms) ==
    IF terms = {} THEN 0
    ELSE LET t == CHOOSE x \in terms : TRUE
         IN TermScore(content, t) + SumTermScores(content, terms \ {t})

\* score / max(len(content) / 1000, 1) as the fraction <<numerator, denominator>>
_calculate_relevance_score(question, content) ==
    LET key_terms == {t \in KeyTerms(question) : TermLen(t) > 2}
    IN IF question = <<>> \/ content = <<>> \/ key_terms = {} THEN <<0, 1>>
       ELSE <<1000 * SumTermScores(content, key_terms),
              Max(CharLen(content), 1000)>>

\* a > b on fractions with positive denominators
FracGT(a, b) == a[1] * b[2] > b[1] * a[2]

\* ------------------------------------------------------------ _clean_boilerplate
\* The rules that can match a text over the vocabulary, in the order of the
\* pattern list: the label rules (^(Evolved|Improved|Advanced|New|Result):,
\* ^(Question|Answer):), ^Here'?s?\s+, and the trailing-fragment rules
\* (:\s*$, that\s*$, which\s*$); then the trailing punctuation artifacts
\* ([:\-\s]+$) and the terminal punctuation.
StripLabel(t, labels) ==
    IF t # <<>> /\ Lower(t[1].w) \in labels /\ t[1].p = ":" THEN Tail(t) ELSE t

StripHeres(t) ==
    IF Len(t) > 1 /\ Lower(t[1].w) = "here's" /\ t[1].p = "" THEN Tail(t) ELSE t

StripTrailingColon(t) ==
    IF t # <<>> /\ t[Len(t)].p = ":"
    THEN [t EXCEPT ![Len(t)] = W(t[Len(t)].w)] ELSE t

StripTrailingWord(t, w) ==
    IF t # <<>> /\ Lower(t[Len(t)].w) = w /\ t[Len(t)].p = ""
    THEN SubSeq(t, 1, Len(t) - 1) ELSE t

interrogatives == {"what", "how", "why", "when", "where", "which", "who"}

EnsureEnding(t) ==
    IF t = <<>> \/ t[Len(t)].p \in {"?", ".", "!", ":"} THEN t
    ELSE IF \E i \in 1..Len(t) : Lower(t[i].w) \in interrogatives
         THEN [t EXCEPT ![Len(t)] = WP(t[Len(t)].w, "?")]
         ELSE [t EXCEPT ![Len(t)] = WP(t[Len(t)].w, ".")]

_clean_boilerplate(text) ==
    LET r1 == StripLabel(text, {"evolved", "improved", "advanced", "new", "result"})
        r2 == StripLabel(r1, {"question", "answer"})
        r3 == StripHeres(r2)
        r4 == StripTrailingColon(r3)
        r5 == StripTrailingWord(r4, "that")
        r6 == StripTrailingWord(r5, "which")
        r7 == StripTrailingColon(r6)
    IN EnsureEnding(r7)

\* ------------------------------------------------------------ documents
\* metadata 'source' and 'filename' are strings: 'source' is "" or a name,
\* with or without a directory in front
NoSource == [dir |-> FALSE, base |-> "", ext |-> ""]

DocShortRel ==
    [page_content |-> <<W("Borovia"), W("is"), WP("small", ".")>>,
     metadata |-> [source |-> [dir |-> TRUE, base |-> "borovia", ext |-> ".pdf"],
                   filename |-> ""]]

DocLongRel ==
    [page_content |-> <<W("FILL"), W("borovia"), WP("zeta", ".")>>,
     metadata |-> [source |-> NoSource, filename |-> "notes.txt"]]

DocLongIrr ==
    [page_content |-> <<W("FILL"), WP("zeta", ".")>>,
     metadata |-> [source |-> NoSource, filename |-> ""]]

\* the document lists of the requests: the heads of two orders of documents
DocOrders ==
    {<<DocShortRel, DocLongRel, DocLongIrr, DocShortRel>>,
     <<DocLongIrr, DocLongRel, DocShortRel, DocLongRel>>}

DocLists == {SubSeq(l, 1, k) : l \in DocOrders, k \in 0..MaxDocs}

\* the title is a list of its parts: os.path.splitext(os.path.basename(source))[0]
\* for a path, the source or the filename as it is, else "Document <index + 1>"
_get_document_title(doc, doc_index) ==
    LET source == doc.metadata.source
    IN IF source # NoSource
       THEN IF source.dir
            THEN IF source.base # "" THEN <<source.base>>
                 ELSE <<source.base, source.ext>>
            ELSE <<source.base, source.ext>>
       ELSE IF doc.metadata.filename # "" THEN <<doc.metadata.filename>>
       ELSE <<"Document", ToString(doc_index + 1)>>

\* ------------------------------------------------------------ the LLM
\* An LLM call raises or returns a text.
Raise == [ok |-> FALSE]

Ok(text) == [ok |-> TRUE, text |-> text]

Raised(outcome) == ~outcome.ok

QBorovia == <<W("What"), W("is"), WP("Borovia", "?")>>

QPlain == <<W("Why"), W("is"), WP("it", "?")>>

\* responses to the base-question prompt: the questions between the '?'
BaseResponses == {<<>>, <<QPlain, QBorovia, QPlain, QBorovia>>}

\* responses to an evolution prompt
EvolveResponses ==
    {<<WP("Question", ":"), W("What"), W("is"), W("Borovia")>>}

\* responses to the answer prompt
AnswerResponses == {<<WP("Answer", ":"), W("Zeta")>>}

\* responses to the context-extraction prompt; the second one is the
\* "No relevant information found in this section" reply
NoRelevantInfo == <<W("No relevant information found in this section")>>

ExtractResponses == {<<W("Borovia"), W("is"), WP("small", ".")>>, NoRelevantInfo}

\* the text of a context is kept as the way it was made: a summary by the
\* LLM, or the head of the content when the summary call raised
AiSummaryText == <<W("<summary by the LLM, at most 200 words>")>>

ContentHeadText == <<W("<the content, at most 50 words>")>>

_create_ai_summary(content, outcome) ==
    IF Raised(outcome) THEN ContentHeadText ELSE AiSummaryText

SummaryOutcomes == {Raise, Ok(AiSummaryText)}

\* ------------------------------------------------------------ per-item steps
EvolutionTypes ==
    <<"simple_evolution", "multi_context_evolution", "reasoning_evolution",
      "complex_evolution">>

FallbackBaseQuestion ==
    <<W("What are the main concepts discussed in this document?")>>

FallbackAnswer == <<W("Unable to generate answer based on provided context.")>>

\* _process_documents_sync for one document; d stands for id(doc) and
\* <<d, i>> for the identity of the question's dict
ProcessDocument(d, outcome) ==
    IF Raised(outcome)
    THEN <<[id |-> <<"base", d, "fallback">>, question |-> FallbackBaseQuestion,
            obj |-> <<d, 0>>]>>
    ELSE [i \in 1..Min(3, Len(outcome.text)) |->
            [id |-> <<"base", d, ToString(i - 1)>>, question |-> outcome.text[i],
             obj |-> <<d, i>>]]

ComplexityLevel(evolution_type) ==
    IF evolution_type = "simple_evolution" THEN 2
    ELSE IF evolution_type = "multi_context_evolution" THEN 3
    ELSE IF evolution_type = "reasoning_evolution" THEN 4 ELSE 5

\* the complexity_level of the except branch of _process_evolution_sync
FallbackComplexityLevel(evolution_type) == 2

\* the id of an evolved question: f"evolved_{id(question)}"
EvolvedId(question) == <<"evolved", question.obj>>

\* an except branch that drops the question whose call failed
EvolveItem_DropOnFailure(question, evolution_type, outcome) ==
    IF question.question = <<>> \/ Raised(outcome) THEN <<>>
    ELSE <<[id |-> EvolvedId(question), question |-> _clean_boilerplate(outcome.text),
            evolution_type |-> evolution_type,
            complexity_level |-> ComplexityLevel(evolution_type)]>>

\* _process_evolution_sync for one question of the batch: no, or one, result
EvolveItem(question, evolution_type, outcome) ==
    IF question.question = <<>> THEN <<>>
    ELSE IF Raised(outcome)
    THEN <<[id |-> EvolvedId(question), question |-> question.question,
            evolution_type |-> evolution_type,
            complexity_level |-> FallbackComplexityLevel(evolution_type)]>>
    ELSE <<[id |-> EvolvedId(question), question |-> _clean_boilerplate(outcome.text),
            evolution_type |-> evolution_type,
            complexity_level |-> ComplexityLevel(evolution_type)]>>

\* an except branch that records the failure with no answer text
AnswerItem_EmptyOnFailure(question, outcome) ==
    IF Raised(outcome)
    THEN [question_id |-> question.id, answer |-> <<>>]
    ELSE [question_id |-> question.id, answer |-> _clean_boilerplate(outcome.text)]

\* _generate_answers_sync for one question of the batch
AnswerItem(question, outcome) ==
    IF Raised(outcome)
    THEN [question_id |-> question.id, answer |-> FallbackAnswer]
    ELSE [question_id |-> question.id, answer |-> _clean_boilerplate(outcome.text)]

HasNoRelevantPhrase(t) == \E i \in 1..Len(t) : t[i].w = NoRelevantInfo[1].w

\* the extracted_context_text of one document in _extract_contexts_sync
\* (<<>> for None)
ExtractedContextText(question_text, content, ext) ==
    IF CharLen(content) <= 400
    THEN IF _is_content_relevant(question_text, content) THEN content ELSE <<>>
    ELSE IF Raised(ext)
    THEN IF _is_content_relevant(question_text, content)
         THEN ContentHeadText ELSE <<>>
    ELSE LET extracted_context == _clean_boilerplate(ext.text)
         IN IF extracted_context # <<>> /\ ~HasNoRelevantPhrase(extracted_context)
            THEN extracted_context ELSE <<>>

SyncSentinel ==
    [text |-> <<W("No document content available")>>, source |-> <<"Unknown">>,
     document_index |-> 0]

FastSentinel ==
    [text |-> <<W("No documents available for context extraction. Please upload documents to generate relevant context.")>>,
     source |-> <<"System Message">>, document_index |-> -1]

\* the contexts that the loop over documents[:3] of _extract_contexts_sync
\* appends for one question, from document i on; ext[i] and sum[i] are the
\* outcomes of the extraction call and of the summary call for document i
RECURSIVE FoundContexts(_, _, _, _, _)
FoundContexts(question_text, head3, ext, sum, i) ==
    IF i > Len(head3) THEN <<>>
    ELSE LET extracted_context_text ==
                 ExtractedContextText(question_text, head3[i].page_content, ext[i])
         IN (IF extracted_context_text # <<>>
             THEN <<[text |-> _create_ai_summary(extracted_context_text, sum[i]),
                     source |-> _get_document_title(head3[i], i - 1),
                     document_index |-> i - 1]>>
             ELSE <<>>)
            \o FoundContexts(question_text, head3, ext, sum, i + 1)

\* the first-document summary or the sentinel, when no context was found
\* (sum[0] is the outcome of the summary call)
FallbackContexts(docs, sum) ==
    IF docs # <<>>
    THEN <<[text |-> _create_ai_summary(docs[1].page_content, sum[0]),
            source |-> _get_document_title(docs[1], 0),
            document_index |-> 0]>>
    ELSE <<SyncSentinel>>

\* the loop body without the final [:1]: every context found is returned
ContextSyncItem_AllFound(question, docs, ext, sum) ==
    LET found == FoundContexts(question.question, Take(docs, 3), ext, sum, 1)
        question_specific_contexts ==
            IF found # <<>> THEN found ELSE FallbackContexts(docs, sum)
    IN [question_id |-> question.id, contexts |-> question_specific_contexts]

\* the body of the loop of _extract_contexts_sync for one question
ContextSyncItem(question, docs, ext, sum) ==
    LET found == FoundContexts(question.question, Take(docs, 3), ext, sum, 1)
        question_specific_contexts ==
            IF found # <<>> THEN found ELSE FallbackContexts(docs, sum)
    IN [question_id |-> question.id,
        contexts |-> Take(question_specific_contexts, 1)]

\* the best document of _extract_contexts_fast: 0 for none, scanning in order
\* and replacing the best one only on a strictly higher score
RECURSIVE BestDoc(_, _, _, _)
BestDoc(question_text, head3, i, best) ==
    IF i > Len(head3) THEN best
    ELSE LET score == _calculate_relevance_score(question_text,
                                                  head3[i].page_content)
             best_score == IF best = 0 THEN <<0, 1>>
                           ELSE _calculate_relevance_score(question_text,
                                    head3[best].page_content)
         IN BestDoc(question_text, head3, i + 1,
                    IF FracGT(score, best_score) THEN i ELSE best)

\* the body of the loop of _extract_contexts_fast for one question
ContextFastItem(question, docs, sum) ==
    LET best == BestDoc(question.question, Take(docs, 3), 1, 0)
        question_specific_contexts ==
            IF best # 0
            THEN <<[text |-> _create_ai_summary(docs[best].page_content, sum),
                    source |-> _get_document_title(docs[best], best - 1),
                    document_index |-> best - 1]>>
            ELSE IF docs # <<>>
            THEN <<[text |-> _create_ai_summary(docs[1].page_content, sum),
                    source |-> _get_document_title(docs[1], 0),
                    document_index |-> 0]>>
            ELSE <<FastSentinel>>
    IN [question_id |-> question.id, contexts |-> question_specific_contexts]

\* ------------------------------------------------------------ fast-mode parser
\* A line of the response is a section header, a "Q<n>: ..." line, an
\* "A<n>: ..." line or any other line.
LineKinds == {"SIMPLE", "MULTI", "REASONING", "Q", "A", "other"}

QLineContent == QBorovia

ALineContent == <<WP("Zeta", ".")>>

SectionOf(kind) ==
    IF kind = "SIMPLE" THEN "simple"
    ELSE IF kind = "MULTI" THEN "multi_context" ELSE "reasoning"

EvolutionTypeOf(current_section) ==
    IF current_section = "simple" THEN "simple_evolution"
    ELSE IF current_section = "multi_context" THEN "multi_context_evolution"
    ELSE "reasoning_evolution"

ParseInit ==
    [current_section |-> "None", question_counter |-> 1,
     evolved_questions |-> <<>>, question_answers |-> <<>>]

\* one round of the loop over the lines
ParseLine(st, kind) ==
    IF kind \in {"SIMPLE", "MULTI", "REASONING"}
    THEN [st EXCEPT !.current_section = SectionOf(kind)]
    ELSE IF kind = "Q" /\ st.current_section # "None"
    THEN [st EXCEPT
            !.evolved_questions = Append(@,
                [id |-> <<"fast_q", ToString(st.question_counter)>>,
                 question |-> QLineContent,
                 evolution_type |-> EvolutionTypeOf(st.current_section),
                 complexity_level |->
                     IF st.current_section = "simple" THEN 2
                     ELSE IF st.current_section = "multi_context" THEN 3 ELSE 4]),
            !.question_counter = @ + 1]
    ELSE IF kind = "A" /\ st.evolved_questions # <<>>
    THEN [st EXCEPT
            !.question_answers = Append(@,
                [question_id |-> st.evolved_questions[Len(st.evolved_questions)].id,
                 answer |-> ALineContent])]
    ELSE st

RECURSIVE ParseLines(_, _)
ParseLines(st, lines) ==
    IF lines = <<>> THEN st
    ELSE ParseLines(ParseLine(st, Head(lines)), Tail(lines))

\* the except branch of the parser is not modelled: nothing in its try block
\* can raise on a str
_parse_comprehensive_response(lines) ==
    LET st == ParseLines(ParseInit, lines)
    IN IF st.evolved_questions = <<>>
       THEN [evolved_questions |->
                <<[id |-> <<"fast_fallback", "1">>,
                   question |-> <<W("What are the key concepts discussed in the provided documents?")>>,
                   evolution_type |-> "simple_evolution",
                   complexity_level |-> 2]>>,
             question_answers |->
                <<[question_id |-> <<"fast_fallback", "1">>,
                   answer |-> <<W("<the response, at most 200 characters>")>>]>>]
       ELSE [evolved_questions |-> st.evolved_questions,
             question_answers |-> st.question_answers]

\* the result of the except branch of generate_synthetic_data_fast
FastFallback ==
    [evolved_questions |->
        <<[id |-> <<"fallback", "1">>,
           question |-> <<W("What are the main topics in these documents?")>>,
           evolution_type |-> "simple_evolution", complexity_level |-> 2]>>,
     question_answers |->
        <<[question_id |-> <<"fallback", "1">>,
           answer |-> <<W("The documents discuss various topics that require further analysis.")>>]>>]

\* _extract_contexts_fast: one record for each question, in order
_extract_contexts_fast(questions, docs, sums) ==
    [i \in 1..Len(questions) |-> ContextFastItem(questions[i], docs, sums[i])]

MakeResult(eq, qa, qc, execution_mode) ==
    [evolved_questions |-> eq, question_answers |-> qa, question_contexts |-> qc,
     performance_metrics |->
        [questions_generated |-> Len(eq), answers_generated |-> Len(qa),
         contexts_extracted |-> Len(qc), execution_mode |-> execution_mode]]

\* what generate_synthetic_data_fast computes on a cache miss
FastResult(docs, outcome, sums) ==
    LET parsed == IF Raised(outcome) THEN FastFallback
                  ELSE _parse_comprehensive_response(outcome.text)
    IN MakeResult(parsed.evolved_questions, parsed.question_answers,
                  _extract_contexts_fast(parsed.evolved_questions, docs, sums),
                  "ultra_fast_single_call")

\* ------------------------------------------------------------ generation service
VARIABLES
    documents,          \* the documents of the request
    cfg,                \* settings: the evolution counts and the batch size
    mode,               \* "standard" or "fast"
    cache_entry,        \* what the cache holds under the key of the request
    pc,                 \* where the request is
    base_slots,         \* per document: the result of _process_documents_sync
    base_questions,
    evo_slots,          \* per evolution type and question: the result
    evolved_questions,
    answer_slots,       \* per evolved question: its answer
    context_slots,      \* per evolved question: its context record
    result,             \* what the request returned
    from_cache,         \* history: the result is the cached one
    answer_log          \* history: the outcome of the LLM call of each answer

genVars ==
    <<documents, cfg, mode, cache_entry, pc, base_slots, base_questions,
      evo_slots, evolved_questions, answer_slots, context_slots, result,
      from_cache, answer_log>>

\* a call of _extract_contexts_sync or _extract_contexts_fast on its own
VARIABLES
    ctx_call,           \* the function called, its questions and documents
    ctx_results,        \* the local list 'results'
    ctx_returned        \* the list the call returned

ctxVars == <<ctx_call, ctx_results, ctx_returned>>

\* a call of evaluate_synthetic_data
VARIABLES
    eval_call,          \* evolved_questions, the ids that have an answer, evaluation_metrics
    detailed_results,
    question_result,    \* the metrics of the question being evaluated
    metric_idx,         \* the position in evaluation_metrics
    metric_scores,
    eval_result,        \* overall_scores and detailed_results as returned
    eval_log            \* history: per score, whether the judge was called,
                        \* whether the call raised, and the local raw_score

evalVars ==
    <<eval_call, detailed_results, question_result, metric_idx, metric_scores,
      eval_result, eval_log>>

\* two calls of _generate_cache_key
VARIABLES
    key_calls,          \* the documents and settings of each call
    cache_keys          \* the key each call returned

keyVars == <<key_calls, cache_keys>>

\* a call of _process_evolution_sync
VARIABLES
    batch_call,         \* question_batch and evolution_type
    batch_outcomes,     \* history: the outcome of the LLM call of each turn
    batch_results,      \* the local list 'results'
    batch_returned      \* the list the call returned

batchVars == <<batch_call, batch_outcomes, batch_results, batch_returned>>

\* a CacheManager, the Redis server behind it and the clock
VARIABLES
    cache_enabled,      \* self.cache_enabled: Redis is in use
    redis_store,        \* per key: what the Redis server holds
    memory_cache,       \* self.memory_cache
    now,                \* datetime.now()
    cm_ops,             \* the number of calls made so far
    last_op             \* history: the last call, the state it met, its result

cmVars == <<cache_enabled, redis_store, memory_cache, now, cm_ops, last_op>>

\* _clean_boilerplate applied to a text, and again to what it returned
VARIABLES
    clean_text,         \* the argument 'text' of the first call
    clean_out           \* what each call returned

cleanVars == <<clean_text, clean_out>>

\* the requests of one service process, its executor and its event loop
VARIABLES
    requests,           \* per request: its mode and where it is
    executor_queue,     \* the work queue of self.executor: the request of each task
    executor_workers    \* per worker thread: the task it runs, inside llm.invoke or not

poolVars == <<requests, executor_queue, executor_workers>>

\* a call of _extract_numerical_score
VARIABLES
    score_call,         \* evaluation_text and fallback_score
    score_returned      \* the score the call returned

scoreVars == <<score_call, score_returned>>

\* two standard-mode requests with the same cache key
VARIABLES
    race_cache,         \* what the cache holds under the key
    race_pc,            \* per request: where it is
    race_parts,         \* per request: the parts of the result it has computed
    race_result,        \* per request: what it returned
    race_written        \* history: the value of the last write the cache served

raceVars == <<race_cache, race_pc, race_parts, race_result, race_written>>

\* two RateLimiters that get the same requests for one key: one with a
\* Redis client, one without
VARIABLES
    rl_cfg,             \* limit and window of the calls
    rl_now,             \* time.time()
    rl_zset,            \* Redis: the scores of the sorted set of the key
    rl_limiters,        \* per limiter: its local bucket of the key, last_cleanup
    rl_log              \* history: per request its time and the two decisions

rlVars == <<rl_cfg, rl_now, rl_zset, rl_limiters, rl_log>>


\* the FastAPI application (main.py): the service globals and POST /generate,
\* POST /evaluate
VARIABLES
    app_state,              \* "created", "started" (startup_event returned), "exited"
    CACHE_AVAILABLE,        \* whether the cache manager could be imported
    evol_instruct_service,  \* TRUE: an EvolInstructService, FALSE: None
    evaluation_service,     \* TRUE: an EvaluationService, FALSE: None
    generation_status,      \* the status entries, in the order they were last written
    http_log                \* history: per request what was raised and what was returned

httpVars == <<app_state, CACHE_AVAILABLE, evol_instruct_service,
              evaluation_service, generation_status, http_log>>

vars ==
    <<genVars, ctxVars, evalVars, keyVars, batchVars, cmVars, cleanVars,
      poolVars, scoreVars, raceVars, rlVars, httpVars>>

notGen ==
    <<ctxVars, evalVars, keyVars, batchVars, cmVars, cleanVars, poolVars,
      scoreVars, raceVars, rlVars, httpVars>>

notCtx ==
    <<genVars, evalVars, keyVars, batchVars, cmVars, cleanVars, poolVars,
      scoreVars, raceVars, rlVars, httpVars>>

notEval ==
    <<genVars, ctxVars, keyVars, batchVars, cmVars, cleanVars, poolVars,
      scoreVars, raceVars, rlVars, httpVars>>

notKey ==
    <<genVars, ctxVars, evalVars, batchVars, cmVars, cleanVars, poolVars,
      scoreVars, raceVars, rlVars, httpVars>>

notBatch ==
    <<genVars, ctxVars, evalVars, keyVars, cmVars, cleanVars, poolVars,
      scoreVars, raceVars, rlVars, httpVars>>

notCm ==
    <<genVars, ctxVars, evalVars, keyVars, batchVars, cleanVars, poolVars,
      scoreVars, raceVars, rlVars, httpVars>>

notClean ==
    <<genVars, ctxVars, evalVars, keyVars, batchVars, cmVars, poolVars,
      scoreVars, raceVars, rlVars, httpVars>>

notPool ==
    <<genVars, ctxVars, evalVars, keyVars, batchVars, cmVars, cleanVars,
      scoreVars, raceVars, rlVars, httpVars>>

notScore ==
    <<genVars, ctxVars, evalVars, keyVars, batchVars, cmVars, cleanVars,
      poolVars, raceVars, rlVars, httpVars>>

notRace ==
    <<genVars, ctxVars, evalVars, keyVars, batchVars, cmVars, cleanVars,
      poolVars, scoreVars, rlVars, httpVars>>

notRl ==
    <<genVars, ctxVars, evalVars, keyVars, batchVars, cmVars, cleanVars,
      poolVars, scoreVars, raceVars, httpVars>>

notHttp ==
    <<genVars, ctxVars, evalVars, keyVars, batchVars, cmVars, cleanVars,
      poolVars, scoreVars, raceVars, rlVars>>

Pending == [done |-> FALSE]

Done(v) == [done |-> TRUE, val |-> v]

\* an exception that leaves the function
Escaped == [done |-> FALSE, escaped |-> TRUE]

Escapes(x) == "escaped" \in DOMAIN x

AllDone(slots) == \A i \in 1..Len(slots) : slots[i].done

Values(slots) == [i \in 1..Len(slots) |-> slots[i].val]

PendingSlots(n) == [i \in 1..n |-> Pending]

BatchSizes == {1, 2}

TypeIdx == 1..Len(EvolutionTypes)

Configs ==
    {[count |-> c, batch_size |-> b] :
        c \in {x \in [TypeIdx -> 0..MaxEvolved] :
                  x[1] + x[2] + x[3] + x[4] <= MaxEvolved},
        b \in BatchSizes}

\* The requests: every document list with one configuration (in which two
\* branches evolve the same base question), and every configuration with one
\* document list.  Fast mode does not read the configuration.
ProbeConfig == [count |-> <<1, 1, 0, 0>>, batch_size |-> 1]

ProbeDocs == <<DocShortRel>>

Scenarios(m) ==
    IF m = "fast" THEN DocLists \X {ProbeConfig}
    ELSE (DocLists \X {ProbeConfig}) \cup ({ProbeDocs} \X Configs)

\* the batches of a stage run side by side, the items of a batch in order
CanRun(slots, i, batch_size) ==
    /\ i \in 1..Len(slots)
    /\ ~slots[i].done
    /\ IF (i - 1) % batch_size = 0 THEN TRUE ELSE slots[i - 1].done

\* min(len(base_questions), settings.<type>_count)
EvolveCount(cf, bq, t) == Min(Len(bq), cf.count[t])

AllRaise(n) == [i \in 0..n |-> Raise]

\* the result of an earlier run on the same documents and settings in which
\* every LLM call raised: what the cache may hold when the service starts
PriorStandardResult(docs, cf) ==
    LET bq == Flatten([d \in 1..Len(docs) |-> ProcessDocument(d, Raise)])
        eq == Flatten([t \in TypeIdx |->
                 Flatten([i \in 1..EvolveCount(cf, bq, t) |->
                     EvolveItem(bq[i], EvolutionTypes[t], Raise)])])
    IN MakeResult(eq,
                  [i \in 1..Len(eq) |-> AnswerItem(eq[i], Raise)],
                  [i \in 1..Len(eq) |->
                      ContextSyncItem(eq[i], docs, AllRaise(3), AllRaise(3))],
                  "optimized_async")

PriorResult(m, docs, cf) ==
    IF m = "fast" THEN FastResult(docs, Raise, AllRaise(1))
    ELSE PriorStandardResult(docs, cf)

GenIdle ==
    /\ documents = <<>>
    /\ cfg = ProbeConfig
    /\ mode = "none"
    /\ cache_entry = Pending
    /\ pc = "off"
    /\ base_slots = <<>>
    /\ base_questions = <<>>
    /\ evo_slots = [t \in TypeIdx |-> <<>>]
    /\ evolved_questions = <<>>
    /\ answer_slots = <<>>
    /\ context_slots = <<>>
    /\ result = Pending
    /\ from_cache = FALSE
    /\ answer_log = <<>>

GenInit ==
    /\ mode \in {"standard", "fast"}
    /\ \E sc \in Scenarios(mode) : documents = sc[1] /\ cfg = sc[2]
    /\ cache_entry \in {Pending, Done(PriorResult(mode, documents, cfg))}
    /\ pc = "start"
    /\ base_slots = <<>>
    /\ base_questions = <<>>
    /\ evo_slots = [t \in TypeIdx |-> <<>>]
    /\ evolved_questions = <<>>
    /\ answer_slots = <<>>
    /\ context_slots = <<>>
    /\ result = Pending
    /\ from_cache = FALSE
    /\ answer_log = <<>>

\* a lookup with no except clause: the failure of the cache leaves it
_get_from_cache_Unguarded(entry, getOk) == IF getOk THEN entry ELSE Escaped

\* _get_from_cache: the stored result; None when there is none or when the
\* cache (or the unpickling) raises, which the bare except swallows
_get_from_cache(entry, getOk) == IF getOk THEN entry ELSE Pending

\* a save that overwrites the parts one by one and leaves the answers of an
\* entry that is already there
_save_to_cache_Merge(entry, value, saveOk) ==
    IF ~saveOk THEN entry
    ELSE IF entry.done
    THEN Done([value.val EXCEPT !.question_answers = entry.val.question_answers])
    ELSE value

\* _save_to_cache: the entry after the call; a failure is swallowed
_save_to_cache(entry, value, saveOk) == IF saveOk THEN value ELSE entry

\* generate_synthetic_data_async up to its first await
StartStandard(getOk) ==
    LET cached_result == _get_from_cache(cache_entry, getOk)
    IN /\ pc = "start" /\ mode = "standard"
       /\ IF Escapes(cached_result)
          THEN /\ pc' = "raised"
               /\ UNCHANGED <<result, base_slots, from_cache>>
          ELSE IF cached_result.done
          THEN /\ result' = cached_result
               /\ from_cache' = TRUE
               /\ pc' = "done"
               /\ UNCHANGED base_slots
          ELSE /\ base_slots' = PendingSlots(Len(documents))
               /\ pc' = "base"
               /\ UNCHANGED <<result, from_cache>>
       /\ UNCHANGED <<notGen, documents, cfg, mode, cache_entry, base_questions,
                      evo_slots, evolved_questions, answer_slots,
                      context_slots, answer_log>>

\* _process_documents_sync reaches document d of its batch
BaseStep(d, outcome) ==
    /\ pc = "base"
    /\ CanRun(base_slots, d, cfg.batch_size)
    /\ base_slots' = [base_slots EXCEPT ![d] = Done(ProcessDocument(d, outcome))]
    /\ UNCHANGED <<notGen, documents, cfg, mode, cache_entry, pc, base_questions,
                   evo_slots, evolved_questions, answer_slots, context_slots,
                   result, from_cache, answer_log>>

\* a join that returns as soon as one base-question batch has completed
BaseJoin_Early ==
    /\ pc = "base"
    /\ \E d \in 1..Len(base_slots) : base_slots[d].done
    /\ base_questions' =
           Flatten([d \in 1..Len(base_slots) |->
                       IF base_slots[d].done THEN base_slots[d].val ELSE <<>>])
    /\ evo_slots' = [t \in TypeIdx |->
                        PendingSlots(EvolveCount(cfg, base_questions', t))]
    /\ base_slots' = <<>>
    /\ pc' = "evolve"
    /\ UNCHANGED <<notGen, documents, cfg, mode, cache_entry, evolved_questions,
                   answer_slots, context_slots, result, from_cache, answer_log>>

\* the gather of the base-question batches returns; the four branches start
BaseJoin ==
    /\ pc = "base"
    /\ AllDone(base_slots)
    /\ base_questions' = Flatten(Values(base_slots))
    /\ evo_slots' = [t \in TypeIdx |->
                        PendingSlots(EvolveCount(cfg, base_questions', t))]
    /\ base_slots' = <<>>
    /\ pc' = "evolve"
    /\ UNCHANGED <<notGen, documents, cfg, mode, cache_entry, evolved_questions,
                   answer_slots, context_slots, result, from_cache, answer_log>>

\* _process_evolution_sync reaches question i of its batch, in branch t
EvolveStep(t, i, outcome) ==
    /\ pc = "evolve"
    /\ CanRun(evo_slots[t], i, cfg.batch_size)
    /\ evo_slots' = [evo_slots EXCEPT
                        ![t][i] = Done(EvolveItem(base_questions[i],
                                                  EvolutionTypes[t], outcome))]
    /\ UNCHANGED <<notGen, documents, cfg, mode, cache_entry, pc, base_slots,
                   base_questions, evolved_questions, answer_slots,
                   context_slots, result, from_cache, answer_log>>

\* the gather of the four branches returns; answers and contexts start
EvolveJoin ==
    /\ pc = "evolve"
    /\ \A t \in TypeIdx : AllDone(evo_slots[t])
    /\ evolved_questions' =
           Flatten([t \in TypeIdx |-> Flatten(Values(evo_slots[t]))])
    /\ answer_slots' = PendingSlots(Len(evolved_questions'))
    /\ context_slots' = PendingSlots(Len(evolved_questions'))
    /\ answer_log' = PendingSlots(Len(evolved_questions'))
    /\ base_questions' = <<>>
    /\ evo_slots' = [t \in TypeIdx |-> <<>>]
    /\ pc' = "finish"
    /\ UNCHANGED <<notGen, documents, cfg, mode, cache_entry, base_slots, result,
                   from_cache>>

\* _generate_answers_sync reaches question i of its batch
AnswerStep(i, outcome) ==
    /\ pc = "finish"
    /\ CanRun(answer_slots, i, cfg.batch_size)
    /\ answer_slots' = [answer_slots EXCEPT
                           ![i] = Done(AnswerItem(evolved_questions[i], outcome))]
    /\ answer_log' = [answer_log EXCEPT ![i] = Done(outcome)]
    /\ UNCHANGED <<notGen, documents, cfg, mode, cache_entry, pc, base_slots,
                   base_questions, evo_slots, evolved_questions, context_slots,
                   result, from_cache>>

\* _extract_contexts_sync reaches question i: one task, the questions in order
ContextStep(i, ext, sum) ==
    /\ pc = "finish"
    /\ CanRun(context_slots, i, Len(context_slots))
    /\ context_slots' = [context_slots EXCEPT
                            ![i] = Done(ContextSyncItem(evolved_questions[i],
                                                        documents, ext, sum))]
    /\ UNCHANGED <<notGen, documents, cfg, mode, cache_entry, pc, base_slots,
                   base_questions, evo_slots, evolved_questions, answer_slots,
                   result, from_cache, answer_log>>

\* the gather of answers and contexts returns: the result is built, saved
\* and returned.  The elapsed time that questions_per_second divides by is
\* taken to be positive.
Assemble(saveOk) ==
    LET built == Done(MakeResult(evolved_questions, Values(answer_slots),
                                 Values(context_slots), "optimized_async"))
        saved == _save_to_cache(cache_entry, built, saveOk)
    IN /\ pc = "finish"
       /\ AllDone(answer_slots) /\ AllDone(context_slots)
       /\ IF Escapes(saved)
          THEN pc' = "raised" /\ UNCHANGED <<result, cache_entry>>
          ELSE pc' = "done" /\ result' = built /\ cache_entry' = saved
       /\ evolved_questions' = <<>>
       /\ answer_slots' = <<>>
       /\ context_slots' = <<>>
       /\ UNCHANGED <<notGen, documents, cfg, mode, base_slots, base_questions,
                      evo_slots, from_cache, answer_log>>

\* generate_synthetic_data_fast: it never awaits, so it is one step
GenerateFast(getOk, outcome, sums, saveOk) ==
    LET cached_result == _get_from_cache(cache_entry, getOk)
        built == Done(FastResult(documents, outcome, sums))
        saved == _save_to_cache(cache_entry, built, saveOk)
    IN /\ pc = "start" /\ mode = "fast"
       /\ IF Escapes(cached_result) \/ (~cached_result.done /\ Escapes(saved))
          THEN pc' = "raised" /\ UNCHANGED <<result, cache_entry, from_cache>>
          ELSE IF cached_result.done
          THEN /\ result' = cached_result
               /\ from_cache' = TRUE
               /\ pc' = "done"
               /\ UNCHANGED cache_entry
          ELSE /\ result' = built
               /\ cache_entry' = saved
               /\ pc' = "done"
               /\ UNCHANGED from_cache
       /\ UNCHANGED <<notGen, documents, cfg, mode, base_slots, base_questions,
                      evo_slots, evolved_questions, answer_slots,
                      context_slots, answer_log>>

LLMOutcomes(responses) == {Raise} \cup {Ok(r) : r \in responses}

\* the calls of one kind that a request makes for one question end alike
\* (every mix of outcomes is covered where the context extractors run alone)
Uniform(calls, outcomes) == {[c \in calls |-> o] : o \in outcomes}

DocRange == 1..Min(3, Len(documents))

GenNext ==
    \/ \E getOk \in BOOLEAN : StartStandard(getOk)
    \/ \E d \in 1..Len(documents), o \in LLMOutcomes(BaseResponses) :
          BaseStep(d, o)
    \/ BaseJoin
    \/ \E t \in TypeIdx, i \in 1..MaxEvolved, o \in LLMOutcomes(EvolveResponses) :
          EvolveStep(t, i, o)
    \/ EvolveJoin
    \/ \E i \in 1..Len(answer_slots), o \in LLMOutcomes(AnswerResponses) :
          AnswerStep(i, o)
    \/ \E i \in 1..Len(context_slots),
          ext \in Uniform(DocRange, LLMOutcomes(ExtractResponses)),
          sum \in Uniform({0} \cup DocRange, SummaryOutcomes) :
          ContextStep(i, ext, sum)
    \/ \E saveOk \in BOOLEAN : Assemble(saveOk)
    \/ \E getOk \in BOOLEAN, o \in LLMOutcomes(SeqsUpTo(LineKinds, MaxLines)),
          sums \in Uniform(1..MaxLines, SummaryOutcomes), saveOk \in BOOLEAN :
          GenerateFast(getOk, o, sums, saveOk)

\* ------------------------------------------------------------ context extraction
MaxCtxQuestions == 2

CtxQuestionTexts == {QBorovia, QPlain}

CtxQuestions ==
    {[i \in 1..Len(texts) |-> [id |-> <<"q", ToString(i)>>, question |-> texts[i]]] :
        texts \in SeqsUpTo(CtxQuestionTexts, MaxCtxQuestions)}

CtxIdle ==
    /\ ctx_call = [path |-> "none", questions |-> <<>>, documents |-> <<>>]
    /\ ctx_results = <<>>
    /\ ctx_returned = Pending

CtxInit ==
    /\ ctx_call \in [path : {"sync", "fast"}, questions : CtxQuestions,
                     documents : DocLists]
    /\ ctx_results = <<>>
    /\ ctx_returned = Pending

\* one turn of the loop of _extract_contexts_sync
ExtractContextsSyncStep(ext, sum) ==
    /\ ctx_call.path = "sync"
    /\ ~ctx_returned.done
    /\ Len(ctx_results) < Len(ctx_call.questions)
    /\ ctx_results' =
           Append(ctx_results,
                  ContextSyncItem(ctx_call.questions[Len(ctx_results) + 1],
                                  ctx_call.documents, ext, sum))
    /\ UNCHANGED <<ctx_call, ctx_returned, notCtx>>

\* one turn of the loop of _extract_contexts_fast
ExtractContextsFastStep(sum) ==
    /\ ctx_call.path = "fast"
    /\ ~ctx_returned.done
    /\ Len(ctx_results) < Len(ctx_call.questions)
    /\ ctx_results' =
           Append(ctx_results,
                  ContextFastItem(ctx_call.questions[Len(ctx_results) + 1],
                                  ctx_call.documents, sum))
    /\ UNCHANGED <<ctx_call, ctx_returned, notCtx>>

\* 'return results' of either function
ExtractContextsReturn ==
    /\ ctx_call.path # "none"
    /\ ~ctx_returned.done
    /\ Len(ctx_results) = Len(ctx_call.questions)
    /\ ctx_returned' = Done(ctx_results)
    /\ UNCHANGED <<ctx_call, ctx_results, notCtx>>

CtxDocRange == 1..Min(3, Len(ctx_call.documents))

CtxNext ==
    \/ \E ext \in [CtxDocRange -> LLMOutcomes(ExtractResponses)],
          sum \in [{0} \cup CtxDocRange -> SummaryOutcomes] :
          ExtractContextsSyncStep(ext, sum)
    \/ \E sum \in SummaryOutcomes : ExtractContextsFastStep(sum)
    \/ ExtractContextsReturn

\* ------------------------------------------------------------ evolution batch
MaxBatch == 3

\* the questions of a batch: some have no text
BatchQuestionTexts == {<<>>, QBorovia, QPlain}

BatchCalls ==
    {[question_batch |-> [i \in 1..Len(texts) |->
                             [id |-> <<"base", ToString(i)>>,
                              question |-> texts[i], obj |-> <<0, i>>]],
      evolution_type |-> EvolutionTypes[t]] :
        texts \in SeqsUpTo(BatchQuestionTexts, MaxBatch), t \in TypeIdx}

BatchIdle ==
    /\ batch_call = [question_batch |-> <<>>, evolution_type |-> "none"]
    /\ batch_outcomes = <<>>
    /\ batch_results = <<>>
    /\ batch_returned = Pending

BatchInit ==
    /\ batch_call \in BatchCalls
    /\ batch_outcomes = <<>>
    /\ batch_results = <<>>
    /\ batch_returned = Pending

\* one turn of the loop of _process_evolution_sync; the LLM is only called
\* for a question that has a text
ProcessEvolutionStep(outcome) ==
    LET question == batch_call.question_batch[Len(batch_outcomes) + 1]
    IN /\ batch_call.evolution_type # "none"
       /\ ~batch_returned.done
       /\ Len(batch_outcomes) < Len(batch_call.question_batch)
       /\ IF question.question = <<>> THEN outcome = Ok(<<>>) ELSE TRUE
       /\ batch_results' =
              batch_results \o EvolveItem(question, batch_call.evolution_type,
                                          outcome)
       /\ batch_outcomes' = Append(batch_outcomes, outcome)
       /\ UNCHANGED <<batch_call, batch_returned, notBatch>>

\* 'return results'
ProcessEvolutionReturn ==
    /\ batch_call.evolution_type # "none"
    /\ ~batch_returned.done
    /\ Len(batch_outcomes) = Len(batch_call.question_batch)
    /\ batch_returned' = Done(batch_results)
    /\ UNCHANGED <<batch_call, batch_outcomes, batch_results, notBatch>>

BatchNext ==
    \/ \E o \in LLMOutcomes(EvolveResponses) \cup {Ok(<<>>)} :
          ProcessEvolutionStep(o)
    \/ ProcessEvolutionReturn

\* ------------------------------------------------------------ cache manager
MaxOps == 3         \* calls of the manager in a run

MaxTime == 2        \* ticks of the clock in a run

\* the key "docs:a" is <<"docs", "a">>: the prefix and what follows the colon
CacheKeys == {<<"docs", "a">>, <<"docs", "b">>, <<"results", "a">>}

CachePrefixes == {"docs", "results", "sessions"}

CacheValues == {"v1", "v2"}

TTLs == {1}

Absent == [present |-> FALSE]

\* an entry of the memory cache: {'value': value, 'expiry': expiry_time}
MemEntry(value, expiry) == [present |-> TRUE, value |-> value, expiry |-> expiry]

\* the bytes Redis holds under a key: pickle.dumps(value), or bytes on which
\* pickle.loads raises the named exception (UnpicklingError is a PickleError,
\* EOFError is not)
Pickled(value) == [present |-> TRUE, payload |-> "pickle", value |-> value]

Corrupt(exception) == [present |-> TRUE, payload |-> exception]

\* how a command sent to Redis ends: it is served, it raises
\* redis.ConnectionError, or it raises another exception (redis.TimeoutError)
RedisOutcomes == {"ok", "ConnectionError", "Error"}

\* what a method returns
NoneVal == [kind |-> "None"]

Value(v) == [kind |-> "value", value |-> v]

EntryVal(e) == [kind |-> "entry", value |-> e.value, expiry |-> e.expiry]

BoolVal(b) == [kind |-> "bool", b |-> b]

IntVal(n) == [kind |-> "int", n |-> n]

\* the manager and the server after a call, what the call returned and the
\* commands it sent to Redis
Reply(st, returned, commands) ==
    [st |-> st, result |-> returned, commands |-> commands]

CacheState ==
    [cache_enabled |-> cache_enabled, redis_store |-> redis_store,
     memory_cache |-> memory_cache]

\* a failure handler that leaves the manager in Redis mode
_handle_redis_failure_Stay(st) == st

_handle_redis_failure(st) == [st EXCEPT !.cache_enabled = FALSE]

\* self.memory_cache.get(key)
MemoryGet(memory, key) ==
    IF memory[key].present THEN EntryVal(memory[key]) ELSE NoneVal

\* self.memory_cache.pop(key, None) is not None
MemoryPop(st, key, commands) ==
    Reply([st EXCEPT !.memory_cache[key] = Absent],
          BoolVal(st.memory_cache[key].present), commands)

delete(st, key, o) ==
    IF st.cache_enabled
    THEN IF o = "ok"
         THEN Reply([st EXCEPT !.redis_store[key] = Absent],
                    BoolVal(st.redis_store[key].present), <<"delete">>)
         ELSE IF o = "ConnectionError"
         THEN MemoryPop(_handle_redis_failure(st), key, <<"delete">>)
         ELSE Reply(st, BoolVal(FALSE), <<"delete">>)
    ELSE MemoryPop(st, key, <<>>)

\* o2 is the outcome of the delete that follows a PickleError
get(st, key, o, o2) ==
    IF st.cache_enabled
    THEN IF o = "ok"
         THEN LET cached_data == st.redis_store[key]
              IN IF ~cached_data.present THEN Reply(st, NoneVal, <<"get">>)
                 ELSE IF cached_data.payload = "pickle"
                 THEN Reply(st, Value(cached_data.value), <<"get">>)
                 ELSE IF cached_data.payload = "UnpicklingError"
                 THEN LET d == delete(st, key, o2)
                      IN Reply(d.st, NoneVal, <<"get">> \o d.commands)
                 ELSE Reply(st, NoneVal, <<"get">>)
         ELSE IF o = "ConnectionError"
         THEN LET f == _handle_redis_failure(st)
              IN Reply(f, MemoryGet(f.memory_cache, key), <<"get">>)
         ELSE Reply(st, NoneVal, <<"get">>)
    ELSE Reply(st, MemoryGet(st.memory_cache, key), <<>>)

\* t is datetime.now()
set(st, key, value, ttl, t, o) ==
    IF st.cache_enabled
    THEN IF o = "ok"
         THEN Reply([st EXCEPT !.redis_store[key] = Pickled(value)],
                    BoolVal(TRUE), <<"setex">>)
         ELSE IF o = "ConnectionError"
         THEN Reply([_handle_redis_failure(st) EXCEPT
                        !.memory_cache[key] = MemEntry(value, t + ttl)],
                    BoolVal(TRUE), <<"setex">>)
         ELSE Reply(st, BoolVal(FALSE), <<"setex">>)
    ELSE Reply([st EXCEPT !.memory_cache[key] = MemEntry(value, t + ttl)],
               BoolVal(TRUE), <<>>)

exists(st, key, t, o) ==
    IF st.cache_enabled
    THEN IF o = "ok"
         THEN Reply(st, BoolVal(st.redis_store[key].present), <<"exists">>)
         ELSE IF o = "ConnectionError"
         THEN LET f == _handle_redis_failure(st)
              IN Reply(f, BoolVal(f.memory_cache[key].present), <<"exists">>)
         ELSE Reply(st, BoolVal(FALSE), <<"exists">>)
    ELSE IF st.memory_cache[key].present
         THEN IF t > st.memory_cache[key].expiry
              THEN Reply([st EXCEPT !.memory_cache[key] = Absent],
                         BoolVal(FALSE), <<>>)
              ELSE Reply(st, BoolVal(TRUE), <<>>)
         ELSE Reply(st, BoolVal(FALSE), <<>>)

\* the keys of a store that start with f"{prefix}:"
KeysWithPrefix(store, prefix) ==
    {k \in DOMAIN store : k[1] = prefix /\ store[k].present}

\* a removal that empties the store
Without_Everything(store, keys) == [k \in DOMAIN store |-> Absent]

\* the store without the given keys
Without(store, keys) ==
    [k \in DOMAIN store |-> IF k \in keys THEN Absent ELSE store[k]]

\* the memory branch of clear_prefix
MemoryClear(st, prefix, commands) ==
    LET keys_to_delete == KeysWithPrefix(st.memory_cache, prefix)
    IN Reply([st EXCEPT !.memory_cache = Without(st.memory_cache, keys_to_delete)],
             IntVal(Cardinality(keys_to_delete)), commands)

\* o is the outcome of KEYS, o2 the outcome of the DEL that follows it
clear_prefix(st, prefix, o, o2) ==
    IF st.cache_enabled
    THEN IF o = "ok"
         THEN LET keys == KeysWithPrefix(st.redis_store, prefix)
              IN IF keys = {} THEN Reply(st, IntVal(0), <<"keys">>)
                 ELSE IF o2 = "ok"
                 THEN Reply([st EXCEPT !.redis_store = Without(st.redis_store, keys)],
                            IntVal(Cardinality(keys)), <<"keys", "delete">>)
                 ELSE IF o2 = "ConnectionError"
                 THEN MemoryClear(_handle_redis_failure(st), prefix,
                                  <<"keys", "delete">>)
                 ELSE Reply(st, IntVal(0), <<"keys", "delete">>)
         ELSE IF o = "ConnectionError"
         THEN MemoryClear(_handle_redis_failure(st), prefix, <<"keys">>)
         ELSE Reply(st, IntVal(0), <<"keys">>)
    ELSE MemoryClear(st, prefix, <<>>)

NoOp ==
    [op |-> "none", key |-> <<"", "">>, value |-> "", ttl |-> 0,
     outcome |-> "none", outcome2 |-> "none", at |-> 0,
     before |-> CacheState, result |-> NoneVal, commands |-> <<>>]

EmptyStore == [k \in CacheKeys |-> Absent]

\* what Redis holds when the service starts: nothing, or one entry written
\* earlier, whose bytes may have been damaged since
RedisAtStart ==
    {EmptyStore} \cup
    {[EmptyStore EXCEPT ![<<"docs", "a">>] = e] :
        e \in {Pickled("v1"), Corrupt("UnpicklingError"), Corrupt("EOFError")}}

CmIdle ==
    /\ cache_enabled = FALSE
    /\ redis_store = <<>>
    /\ memory_cache = <<>>
    /\ now = 0
    /\ cm_ops = 0
    /\ last_op = [op |-> "off"]

\* __init__: the ping is answered (Redis mode) or not (memory mode)
CmInit ==
    /\ cache_enabled \in BOOLEAN
    /\ redis_store \in (IF cache_enabled THEN RedisAtStart ELSE {EmptyStore})
    /\ memory_cache = EmptyStore
    /\ now = 0
    /\ cm_ops = 0
    /\ last_op = NoOp

\* the outcome of a Redis command that is not sent is not a choice
Sent(o) == IF cache_enabled THEN TRUE ELSE o = "ok"

Record(op, key, value, ttl, o, o2, r) ==
    /\ cm_ops < MaxOps
    /\ cm_ops' = cm_ops + 1
    /\ cache_enabled' = r.st.cache_enabled
    /\ redis_store' = r.st.redis_store
    /\ memory_cache' = r.st.memory_cache
    /\ last_op' = [op |-> op, key |-> key, value |-> value, ttl |-> ttl,
                   outcome |-> IF cache_enabled THEN o ELSE "none",
                   outcome2 |-> IF Len(r.commands) = 2 THEN o2 ELSE "none",
                   at |-> now, before |-> CacheState, result |-> r.result,
                   commands |-> r.commands]
    /\ UNCHANGED <<now, notCm>>

Get(key, o, o2) ==
    LET r == get(CacheState, key, o, o2)
    IN /\ Sent(o)
       /\ IF Len(r.commands) = 2 THEN TRUE ELSE o2 = "ok"
       /\ Record("get", key, "", 0, o, o2, r)

Set(key, value, ttl, o) ==
    /\ Sent(o)
    /\ Record("set", key, value, ttl, o, "ok", set(CacheState, key, value, ttl, now, o))

Delete(key, o) ==
    /\ Sent(o)
    /\ Record("delete", key, "", 0, o, "ok", delete(CacheState, key, o))

Exists(key, o) ==
    /\ Sent(o)
    /\ Record("exists", key, "", 0, o, "ok", exists(CacheState, key, now, o))

ClearPrefix(prefix, o, o2) ==
    LET r == clear_prefix(CacheState, prefix, o, o2)
    IN /\ Sent(o)
       /\ IF Len(r.commands) = 2 THEN TRUE ELSE o2 = "ok"
       /\ Record("clear_prefix", <<prefix, "*">>, "", 0, o, o2, r)

\* time passes
Tick ==
    /\ last_op.op # "off"
    /\ now < MaxTime
    /\ now' = now + 1
    /\ UNCHANGED <<cache_enabled, redis_store, memory_cache, cm_ops, last_op, notCm>>

CmNext ==
    \/ \E key \in CacheKeys, o \in RedisOutcomes, o2 \in RedisOutcomes :
          Get(key, o, o2)
    \/ \E key \in CacheKeys, value \in CacheValues, ttl \in TTLs,
          o \in RedisOutcomes : Set(key, value, ttl, o)
    \/ \E key \in CacheKeys, o \in RedisOutcomes : Delete(key, o)
    \/ \E key \in CacheKeys, o \in RedisOutcomes : Exists(key, o)
    \/ \E prefix \in CachePrefixes, o \in RedisOutcomes, o2 \in RedisOutcomes :
          ClearPrefix(prefix, o, o2)
    \/ Tick

\* ------------------------------------------------------------ document selection
\* A call of _extract_contexts_fast with one question, over lists of documents
\* longer than the three the loop scans.
MaxSelDocs == 4

\* a question with two key terms
QBoroviaZeta == <<W("What"), W("is"), W("Borovia"), WP("zeta", "?")>>

\* the key term of the question comes late in a long document
DocLateRel ==
    [page_content |-> <<W("FILL"), W("FILL"), WP("borovia", ".")>>,
     metadata |-> [source |-> NoSource, filename |-> ""]]

SelDocs == {DocShortRel, DocLongRel, DocLongIrr, DocLateRel}

SelQuestionTexts == {QBorovia, QPlain, QBoroviaZeta}

SelInit ==
    /\ ctx_call \in [path : {"fast"},
                     questions : {<<[id |-> <<"q", "1">>, question |-> t]>> :
                                     t \in SelQuestionTexts},
                     documents : SeqsUpTo(SelDocs, MaxSelDocs)]
    /\ ctx_results = <<>>
    /\ ctx_returned = Pending

SelNext ==
    \/ \E sum \in SummaryOutcomes : ExtractContextsFastStep(sum)
    \/ ExtractContextsReturn

\* ------------------------------------------------------------ evaluation service
\* Scores are held in tenths: 65 is 6.5.  A judge response is a list of
\* tokens: "Score: n", "n/d" (d is 10 or 9), a bare number n, or a word.
MaxTokens == 2

MaxScores == 2

MaxEvalQuestions == 2

MaxMetrics == 2

Tok(kind, n, d, w) == [kind |-> kind, n |-> n, d |-> d, w |-> w]

JudgeTokens ==
    {Tok("score", 0, 0, ""), Tok("score", 70, 0, ""), Tok("score", 100, 0, ""),
     Tok("over", 0, 100, ""), Tok("over", 120, 100, ""),
     Tok("num", 5, 0, ""), Tok("num", 30, 0, ""),
     Tok("word", 0, 0, "excellent"), Tok("word", 0, 0, "poor"),
     Tok("word", 0, 0, "perfect")}

JudgeResponses == SeqsUpTo(JudgeTokens, MaxTokens)

None == -1

\* re.search: the number of the first token of the kind, None without one
RECURSIVE FirstOfKind(_, _, _)
FirstOfKind(text, kind, i) ==
    IF i > Len(text) THEN None
    ELSE IF text[i].kind = kind THEN text[i].n
    ELSE FirstOfKind(text, kind, i + 1)

\* re.findall(r'\b(\d+(?:\.\d+)?)\b'): every number of the text, in order
RECURSIVE Numbers(_)
Numbers(text) ==
    IF text = <<>> THEN <<>>
    ELSE (CASE text[1].kind = "score" -> <<text[1].n>>
            [] text[1].kind = "over" -> <<text[1].n, text[1].d>>
            [] text[1].kind = "num" -> <<text[1].n>>
            [] OTHER -> <<>>) \o Numbers(Tail(text))

\* the first number between 1.0 and 10.0
RECURSIVE FirstInRange(_)
FirstInRange(numbers) ==
    IF numbers = <<>> THEN None
    ELSE IF 10 <= numbers[1] /\ numbers[1] <= 100 THEN numbers[1]
    ELSE FirstInRange(Tail(numbers))

\* 'not extracted_score': None and 0.0 are both false
Falsy(extracted_score) == extracted_score = None \/ extracted_score = 0

HasWord(text, words) == \E i \in 1..Len(text) : text[i].kind = "word" /\ text[i].w \in words

_extract_numerical_score(evaluation_text, fallback_score) ==
    LET e1 == FirstOfKind(evaluation_text, "score", 1)
        e2 == IF Falsy(e1) THEN FirstOfKind(evaluation_text, "over", 1) ELSE e1
        e3 == IF Falsy(e2)
              THEN LET found == FirstInRange(Numbers(evaluation_text))
                   IN IF found = None THEN e2 ELSE found
              ELSE e2
    IN IF ~Falsy(e3) THEN Max(10, Min(90, e3))
       ELSE IF HasWord(evaluation_text, {"excellent", "outstanding", "exceptional"}) THEN 85
       ELSE IF HasWord(evaluation_text, {"good", "well", "solid", "effective"}) THEN 70
       ELSE IF HasWord(evaluation_text, {"fair", "adequate", "reasonable"}) THEN 60
       ELSE IF HasWord(evaluation_text, {"poor", "weak", "lacking"}) THEN 40
       ELSE IF HasWord(evaluation_text, {"terrible", "awful", "bad"}) THEN 20
       ELSE Min(80, fallback_score)

\* a judge of question quality without its own cap
_evaluate_question_quality_Uncapped(outcome) ==
    _extract_numerical_score(outcome.text, 65)

\* the three judges; an outcome that raised leaves through _evaluate_single_metric
_evaluate_question_quality(outcome) ==
    Min(88, _extract_numerical_score(outcome.text, 65))

_evaluate_answer_accuracy(has_answer, outcome) ==
    IF ~has_answer THEN 20
    ELSE Min(85, _extract_numerical_score(outcome.text, 60))

_evaluate_evolution_effectiveness(outcome) ==
    Min(87, _extract_numerical_score(outcome.text, 65))

MetricNames ==
    {"question_quality", "answer_accuracy", "evolution_effectiveness", "other"}

\* an except branch that scores a failed call 0
_evaluate_single_metric_ZeroOnError(has_answer, metric, outcome) ==
    IF metric = "question_quality"
    THEN IF Raised(outcome) THEN 0 ELSE _evaluate_question_quality(outcome)
    ELSE IF metric = "answer_accuracy"
    THEN IF has_answer /\ Raised(outcome) THEN 0
         ELSE _evaluate_answer_accuracy(has_answer, outcome)
    ELSE IF metric = "evolution_effectiveness"
    THEN IF Raised(outcome) THEN 0 ELSE _evaluate_evolution_effectiveness(outcome)
    ELSE 50

\* the call of the LLM is the only thing that raises, and not without an answer
_evaluate_single_metric(has_answer, metric, outcome) ==
    IF metric = "question_quality"
    THEN IF Raised(outcome) THEN 50 ELSE _evaluate_question_quality(outcome)
    ELSE IF metric = "answer_accuracy"
    THEN IF has_answer /\ Raised(outcome) THEN 50
         ELSE _evaluate_answer_accuracy(has_answer, outcome)
    ELSE IF metric = "evolution_effectiveness"
    THEN IF Raised(outcome) THEN 50 ELSE _evaluate_evolution_effectiveness(outcome)
    ELSE 50

\* overall_scores[metric] as the fraction <<numerator, denominator>>:
\* max(0.0, min(0.95, (avg_score - 1) / 8)), without the cap at 0.95
OverallScore_Uncapped(scores) ==
    IF scores = <<>> THEN <<0, 1>>
    ELSE LET n == Len(scores)
             normalized == SumSeq(scores) - 10 * n
         IN <<Max(0, normalized), 80 * n>>

\* overall_scores[metric] as the fraction <<numerator, denominator>>:
\* max(0.0, min(0.95, (avg_score - 1) / 8)); 0.95 is 76/80
OverallScore(scores) ==
    IF scores = <<>> THEN <<0, 1>>
    ELSE LET n == Len(scores)
             normalized == SumSeq(scores) - 10 * n
             capped == Min(76 * n, normalized)
         IN <<Max(0, capped), 80 * n>>

\* the final loop: a score of 0.98 or more becomes 0.95
Safeguarded(score) ==
    IF 100 * score[1] >= 98 * score[2] THEN <<95, 100>> ELSE score

Range(s) == {s[i] : i \in 1..Len(s)}

EvalQuestions ==
    {[i \in 1..n |-> [id |-> <<"q", ToString(i)>>]] : n \in 0..MaxEvalQuestions}

EvalCalls ==
    {c \in [evolved_questions : EvalQuestions,
            answered : SUBSET {<<"q", "1">>, <<"q", "2">>},
            evaluation_metrics : SeqsUpTo(MetricNames, MaxMetrics)] :
        Len(c.evolved_questions) * Len(c.evaluation_metrics) <= MaxScores}

EvalInit ==
    /\ eval_call \in EvalCalls
    /\ detailed_results = <<>>
    /\ question_result = <<>>
    /\ metric_idx = 1
    /\ metric_scores = [m \in Range(eval_call.evaluation_metrics) |-> <<>>]
    /\ eval_result = Pending
    /\ eval_log = <<>>

\* self.evaluation_llm.invoke is reached: not for an unknown metric, and not
\* for answer_accuracy without an answer
Invoked(has_answer, metric) ==
    \/ metric \in {"question_quality", "evolution_effectiveness"}
    \/ metric = "answer_accuracy" /\ has_answer

\* the fallback_score each judge passes to _extract_numerical_score
FallbackScore(metric) == IF metric = "answer_accuracy" THEN 60 ELSE 65

\* what the evaluation of one metric leaves in the history
LogEntry(question_id, has_answer, metric, outcome) ==
    LET invoked == Invoked(has_answer, metric)
    IN [question_id |-> question_id, metric |-> metric, invoked |-> invoked,
        raised |-> invoked /\ Raised(outcome),
        raw_score |-> IF invoked /\ ~Raised(outcome)
                      THEN _extract_numerical_score(outcome.text,
                                                    FallbackScore(metric))
                      ELSE None]

\* the question being evaluated
EvalQuestion == eval_call.evolved_questions[Len(detailed_results) + 1]

\* one turn of the inner loop: a metric of the question is scored
EvaluateMetric(outcome) ==
    /\ ~eval_result.done
    /\ Len(detailed_results) < Len(eval_call.evolved_questions)
    /\ metric_idx <= Len(eval_call.evaluation_metrics)
    /\ LET metric == eval_call.evaluation_metrics[metric_idx]
           score == _evaluate_single_metric(
                        EvalQuestion.id \in eval_call.answered, metric, outcome)
       IN /\ question_result' = (metric :> score) @@ question_result
          /\ metric_scores' = [metric_scores EXCEPT
                                  ![metric] = Append(@, score)]
          /\ eval_log' =
                 Append(eval_log,
                        LogEntry(EvalQuestion.id,
                                 EvalQuestion.id \in eval_call.answered,
                                 metric, outcome))
    /\ metric_idx' = metric_idx + 1
    /\ UNCHANGED <<eval_call, detailed_results, eval_result,
                   notEval>>

\* the end of a turn of the outer loop: the result of the question is kept
EvaluateQuestionEnd ==
    /\ ~eval_result.done
    /\ Len(detailed_results) < Len(eval_call.evolved_questions)
    /\ metric_idx > Len(eval_call.evaluation_metrics)
    /\ detailed_results' =
           Append(detailed_results,
                  [question_id |-> EvalQuestion.id, metrics |-> question_result])
    /\ question_result' = <<>>
    /\ metric_idx' = 1
    /\ UNCHANGED <<eval_call, metric_scores, eval_result, eval_log,
                   notEval>>

\* after the loops: the overall scores are computed and the call returns
EvaluateReturn ==
    /\ ~eval_result.done
    /\ Len(detailed_results) = Len(eval_call.evolved_questions)
    /\ eval_result' =
           Done([overall_scores |->
                     [m \in DOMAIN metric_scores |->
                         Safeguarded(OverallScore(metric_scores[m]))],
                 detailed_results |-> detailed_results])
    /\ UNCHANGED <<eval_call, detailed_results, question_result, metric_idx,
                   metric_scores, eval_log, notEval>>

EvalNext ==
    \/ \E o \in LLMOutcomes(JudgeResponses) : EvaluateMetric(o)
    \/ EvaluateQuestionEnd
    \/ EvaluateReturn

\* ------------------------------------------------------------ cache key
MaxKeyDocs == 2

MaxContent == 2

Bytes == {"a", "b"}

\* page_content of a document, as its bytes
Contents == SeqsUpTo(Bytes, MaxContent)

\* settings is None, or a GenerationSettings with this simple_evolution_count
NoSettings == [given |-> FALSE, simple_evolution_count |-> 0]

KeySettings ==
    {NoSettings} \cup
    {[given |-> TRUE, simple_evolution_count |-> n] : n \in 1..2}

\* str(settings.dict()).encode()
SettingsBytes(settings) == <<"{", ToString(settings.simple_evolution_count), "}">>

\* The key is md5 of the bytes that the updates feed in, one document after
\* the other and then the settings; md5 is taken to be free of collisions, so
\* the key is held as the bytes that were hashed.
_generate_cache_key(docs, settings) ==
    <<"evolsynth:">> \o Flatten(docs)
        \o (IF settings.given THEN SettingsBytes(settings) ELSE <<>>)

KeyArgs == [documents : SeqsUpTo(Contents, MaxKeyDocs), settings : KeySettings]

KeyInit ==
    /\ key_calls \in [1..2 -> KeyArgs]
    /\ cache_keys = [i \in 1..2 |-> Pending]

\* call i of _generate_cache_key
GenerateCacheKey(i) ==
    /\ i \in 1..Len(cache_keys)
    /\ ~cache_keys[i].done
    /\ cache_keys' = [cache_keys EXCEPT
                         ![i] = Done(_generate_cache_key(key_calls[i].documents,
                                                         key_calls[i].settings))]
    /\ UNCHANGED <<key_calls, notKey>>

KeyNext == \E i \in 1..2 : GenerateCacheKey(i)

\* ------------------------------------------------------------ the text cleaner
MaxCleanLen == 3

\* the chunks of the generated texts: a conversational starter, two labels,
\* trailing fragments and plain words
CleanChunks ==
    {W("Here's"), WP("Question", ":"), WP("Result", ":"), W("What"),
     W("that"), W("Borovia"), WP("Borovia", "?")}

CleanTexts == SeqsUpTo(CleanChunks, MaxCleanLen)

CleanIdle ==
    /\ clean_text = <<>>
    /\ clean_out = <<>>

CleanInit ==
    /\ clean_text \in CleanTexts
    /\ clean_out = <<>>

\* a call of _clean_boilerplate: the first on the text, the second on what
\* the first returned
CleanBoilerplate ==
    /\ Len(clean_out) < 2
    /\ clean_out' =
           Append(clean_out,
                  _clean_boilerplate(IF clean_out = <<>> THEN clean_text
                                     ELSE clean_out[Len(clean_out)]))
    /\ UNCHANGED <<clean_text, notClean>>

CleanNext == CleanBoilerplate

\* ------------------------------------------------------------ session cache
MaxSessionOps == 3

SessionIds == {"session123", "session456"}

\* f"{self.prefix}:{session_id}"
SessionKey(session_id) == <<"sessions", session_id>>

SessionKeys == {SessionKey(session_id) : session_id \in SessionIds}

\* self.default_ttl = 1800 seconds, in ticks of the clock
SessionTTL == 2

\* a dict is a function from its keys to their values; {} has no key
EmptyDict == [f \in {} |-> 0]

\* d.update(e)
DictUpdate(d, e) ==
    [f \in DOMAIN d \cup DOMAIN e |-> IF f \in DOMAIN e THEN e[f] ELSE d[f]]

\* the data dicts that callers save
SessionData ==
    {[user_id |-> "user123"], [user_id |-> "user123", progress |-> 30]}

\* the (progress, status) pairs that callers report
ProgressReports == {<<25, "started">>, <<75, "processing">>}

\* the object a get returned, as Python holds it: None, the unpickled value,
\* or the {'value': ..., 'expiry': ...} dict of the memory cache
AsObject(returned) ==
    IF returned.kind = "entry"
    THEN [value |-> returned.value, expiry |-> returned.expiry]
    ELSE IF returned.kind = "value" THEN returned.value
    ELSE EmptyDict

\* self.cache.get(key) or {}: None and the empty dict give {}
OrEmptyDict(returned) ==
    IF returned.kind = "None" THEN EmptyDict ELSE AsObject(returned)

get_session_data(st, session_id, o, o2) ==
    get(st, SessionKey(session_id), o, o2)

save_session_data(st, session_id, data, t, o) ==
    set(st, SessionKey(session_id), data, SessionTTL, t, o)

\* os = <<outcome of GET, outcome of the DELETE after a PickleError, outcome
\* of SETEX>>. In memory mode session_data is the very dict the memory cache
\* holds; the set that follows replaces that entry under the same key.
update_progress(st, session_id, progress, status, t, os) ==
    LET g == get_session_data(st, session_id, os[1], os[2])
        session_data ==
            DictUpdate(OrEmptyDict(g.result),
                       [progress |-> progress, status |-> status,
                        last_update |-> t])
        s == save_session_data(g.st, session_id, session_data, t, os[3])
    IN Reply(s.st, s.result, g.commands \o s.commands)

SessionStore == [k \in SessionKeys |-> Absent]

\* __init__ of the manager: Redis mode or memory mode, nothing saved yet
SessionInit ==
    /\ cache_enabled \in BOOLEAN
    /\ redis_store = SessionStore
    /\ memory_cache = SessionStore
    /\ now = 0
    /\ cm_ops = 0
    /\ last_op = [op |-> "none", session_id |-> "", data |-> EmptyDict,
                  outcomes |-> <<>>, at |-> 0, before |-> CacheState,
                  result |-> NoneVal]

\* the outcomes of the commands a call did not send are not a choice
SentOnly(os, r) ==
    /\ \A i \in 1..Len(os) : os[i] \in RedisOutcomes
    /\ Len(r.commands) <= Len(os)
    /\ \A i \in (Len(r.commands) + 1)..Len(os) : os[i] = "ok"

SessionRecord(op, session_id, data, os, r) ==
    /\ cm_ops < MaxSessionOps
    /\ cm_ops' = cm_ops + 1
    /\ cache_enabled' = r.st.cache_enabled
    /\ redis_store' = r.st.redis_store
    /\ memory_cache' = r.st.memory_cache
    /\ last_op' = [op |-> op, session_id |-> session_id, data |-> data,
                   outcomes |-> SubSeq(os, 1, Len(r.commands)), at |-> now,
                   before |-> CacheState, result |-> r.result]
    /\ UNCHANGED <<now, notCm>>

GetSessionData(session_id, o) ==
    LET r == get_session_data(CacheState, session_id, o, "ok")
    IN /\ SentOnly(<<o>>, r)
       /\ SessionRecord("get_session_data", session_id, EmptyDict, <<o>>, r)

SaveSessionData(session_id, data, o) ==
    LET r == save_session_data(CacheState, session_id, data, now, o)
    IN /\ SentOnly(<<o>>, r)
       /\ SessionRecord("save_session_data", session_id, data, <<o>>, r)

UpdateProgress(session_id, progress, status, o, o3) ==
    LET r == update_progress(CacheState, session_id, progress, status, now,
                             <<o, "ok", o3>>)
    IN /\ SentOnly(<<o, o3>>, r)
       /\ SessionRecord("update_progress", session_id,
                        [progress |-> progress, status |-> status],
                        <<o, o3>>, r)

SessionNext ==
    \/ \E session_id \in SessionIds, o \in RedisOutcomes :
          GetSessionData(session_id, o)
    \/ \E session_id \in SessionIds, data \in SessionData, o \in RedisOutcomes :
          SaveSessionData(session_id, data, o)
    \/ \E session_id \in SessionIds, pr \in ProgressReports,
          o \in RedisOutcomes, o3 \in RedisOutcomes :
          UpdateProgress(session_id, pr[1], pr[2], o, o3)
    \/ Tick

\* ------------------------------------------------------------ worker pool
MaxRequests == 3

\* settings.max_concurrency
max_concurrency == 2

\* the batches a stage of a request hands to the executor at once
MaxTasks == 2

Workers == 1..max_concurrency

NoTask == [request |-> 0, invoking |-> FALSE]

PoolIdle ==
    /\ requests = <<>>
    /\ executor_queue = <<>>
    /\ executor_workers = <<>>

\* the requests have arrived; ThreadPoolExecutor(max_workers=max_concurrency)
PoolInit ==
    /\ requests \in [1..MaxRequests ->
                        [mode : {"standard", "fast"}, pc : {"new"}]]
    /\ executor_queue = <<>>
    /\ executor_workers = [w \in Workers |-> NoTask]

\* the event loop thread runs coroutine code unless it sits in a call that
\* blocks: llm.invoke of generate_synthetic_data_fast is called in the
\* coroutine itself
LoopFree == \A r \in 1..Len(requests) : requests[r].pc # "invoking"

\* the tasks of request r that are queued or running
TasksOf(r) ==
    Cardinality({i \in 1..Len(executor_queue) : executor_queue[i] = r})
        + Cardinality({w \in Workers : executor_workers[w].request = r})

\* a stage of a standard-mode request: loop.run_in_executor for each of its
\* n batches, then the await of their gather
RunInExecutor(r, n) ==
    /\ LoopFree
    /\ requests[r] = [mode |-> "standard", pc |-> "new"]
    /\ executor_queue' = executor_queue \o [i \in 1..n |-> r]
    /\ requests' = [requests EXCEPT ![r].pc = "awaiting"]
    /\ UNCHANGED <<executor_workers, notPool>>

\* an idle worker thread takes the next task of the queue
WorkerTake(w) ==
    /\ executor_workers[w] = NoTask
    /\ executor_queue # <<>>
    /\ executor_workers' =
           [executor_workers EXCEPT ![w] = [request |-> Head(executor_queue),
                                            invoking |-> FALSE]]
    /\ executor_queue' = Tail(executor_queue)
    /\ UNCHANGED <<requests, notPool>>

\* the sync function of the task calls llm.invoke
WorkerInvoke(w) ==
    /\ executor_workers[w].request # 0
    /\ ~executor_workers[w].invoking
    /\ executor_workers' = [executor_workers EXCEPT ![w].invoking = TRUE]
    /\ UNCHANGED <<requests, executor_queue, notPool>>

\* llm.invoke returns or raises
WorkerInvokeEnd(w) ==
    /\ executor_workers[w].invoking
    /\ executor_workers' = [executor_workers EXCEPT ![w].invoking = FALSE]
    /\ UNCHANGED <<requests, executor_queue, notPool>>

\* the sync function returns
WorkerReturn(w) ==
    /\ executor_workers[w].request # 0
    /\ ~executor_workers[w].invoking
    /\ executor_workers' = [executor_workers EXCEPT ![w] = NoTask]
    /\ UNCHANGED <<requests, executor_queue, notPool>>

\* the gather of the stage returns and the request goes on to return
GatherReturn(r) ==
    /\ LoopFree
    /\ requests[r].pc = "awaiting"
    /\ TasksOf(r) = 0
    /\ requests' = [requests EXCEPT ![r].pc = "done"]
    /\ UNCHANGED <<executor_queue, executor_workers, notPool>>

\* generate_synthetic_data_fast reaches llm.invoke, on the event loop thread
FastInvoke(r) ==
    /\ LoopFree
    /\ requests[r] = [mode |-> "fast", pc |-> "new"]
    /\ requests' = [requests EXCEPT ![r].pc = "invoking"]
    /\ UNCHANGED <<executor_queue, executor_workers, notPool>>

\* its llm.invoke returns or raises and the request goes on to return
FastInvokeEnd(r) ==
    /\ requests[r].pc = "invoking"
    /\ requests' = [requests EXCEPT ![r].pc = "done"]
    /\ UNCHANGED <<executor_queue, executor_workers, notPool>>

PoolNext ==
    \/ \E r \in 1..MaxRequests, n \in 1..MaxTasks : RunInExecutor(r, n)
    \/ \E w \in Workers : WorkerTake(w)
    \/ \E w \in Workers : WorkerInvoke(w)
    \/ \E w \in Workers : WorkerInvokeEnd(w)
    \/ \E w \in Workers : WorkerReturn(w)
    \/ \E r \in 1..MaxRequests : GatherReturn(r)
    \/ \E r \in 1..MaxRequests : FastInvoke(r)
    \/ \E r \in 1..MaxRequests : FastInvokeEnd(r)

\* ------------------------------------------------------------ score extraction
\* the fallback scores the judges pass: 6.5, 6.0, and the default 5.0
FallbackScores == {65, 60, 50}

ScoreIdle ==
    /\ score_call = [evaluation_text |-> <<>>, fallback_score |-> 0]
    /\ score_returned = Pending

ScoreInit ==
    /\ score_call \in [evaluation_text : JudgeResponses,
                       fallback_score : FallbackScores]
    /\ score_returned = Pending

ExtractNumericalScore ==
    /\ ~score_returned.done
    /\ score_returned' =
           Done(_extract_numerical_score(score_call.evaluation_text,
                                         score_call.fallback_score))
    /\ UNCHANGED <<score_call, notScore>>

ScoreNext == ExtractNumericalScore

\* ------------------------------------------------------------ cache population race
RaceRequests == {1, 2}

\* the result of a request, each part marked with the request that computed
\* it (0: a request that ran earlier)
ResultBy(r) ==
    [evolved_questions |-> r, question_answers |-> r,
     question_contexts |-> r, performance_metrics |-> r]

NoParts == [p \in {} |-> 0]

RaceIdle ==
    /\ race_cache = Pending
    /\ race_pc = <<>>
    /\ race_parts = <<>>
    /\ race_result = <<>>
    /\ race_written = Pending

\* the key is not cached, or an earlier request left its result
RaceInit ==
    /\ race_cache \in {Pending, Done(ResultBy(0))}
    /\ race_pc = [r \in RaceRequests |-> "start"]
    /\ race_parts = [r \in RaceRequests |-> NoParts]
    /\ race_result = [r \in RaceRequests |-> Pending]
    /\ race_written = Pending

\* generate_synthetic_data_async up to its first await: the cache lookup
RaceLookup(r, getOk) ==
    LET cached_result == _get_from_cache(race_cache, getOk)
    IN /\ race_pc[r] = "start"
       /\ IF Escapes(cached_result)
          THEN /\ race_pc' = [race_pc EXCEPT ![r] = "raised"]
               /\ UNCHANGED race_result
          ELSE IF cached_result.done
          THEN /\ race_result' = [race_result EXCEPT ![r] = cached_result]
               /\ race_pc' = [race_pc EXCEPT ![r] = "done"]
          ELSE /\ race_pc' = [race_pc EXCEPT ![r] = "base"]
               /\ UNCHANGED race_result
       /\ UNCHANGED <<race_cache, race_parts, race_written, notRace>>

\* base_questions = await base_questions_task
RaceBase(r) ==
    /\ race_pc[r] = "base"
    /\ race_pc' = [race_pc EXCEPT ![r] = "evolve"]
    /\ UNCHANGED <<race_cache, race_parts, race_result, race_written, notRace>>

\* evolution_results = await asyncio.gather(*evolution_tasks)
RaceEvolve(r) ==
    /\ race_pc[r] = "evolve"
    /\ race_parts' = [race_parts EXCEPT ![r] = [evolved_questions |-> r]]
    /\ race_pc' = [race_pc EXCEPT ![r] = "finish"]
    /\ UNCHANGED <<race_cache, race_result, race_written, notRace>>

\* a task of the last stage returns: part is question_answers or
\* question_contexts
RaceFinish(r, part) ==
    /\ race_pc[r] = "finish"
    /\ part \notin DOMAIN race_parts[r]
    /\ race_parts' =
           [race_parts EXCEPT
               ![r] = [p \in DOMAIN race_parts[r] \cup {part} |-> r]]
    /\ UNCHANGED <<race_cache, race_pc, race_result, race_written, notRace>>

\* the gather of answers and contexts returns: the result is built, saved
\* and returned, with no await in between
RaceAssemble(r, saveOk) ==
    LET built ==
            Done([evolved_questions |-> race_parts[r].evolved_questions,
                  question_answers |-> race_parts[r].question_answers,
                  question_contexts |-> race_parts[r].question_contexts,
                  performance_metrics |-> r])
        saved == _save_to_cache(race_cache, built, saveOk)
    IN /\ race_pc[r] = "finish"
       /\ {"question_answers", "question_contexts"} \subseteq DOMAIN race_parts[r]
       /\ IF Escapes(saved)
          THEN /\ race_pc' = [race_pc EXCEPT ![r] = "raised"]
               /\ UNCHANGED <<race_result, race_cache, race_written>>
          ELSE /\ race_pc' = [race_pc EXCEPT ![r] = "done"]
               /\ race_result' = [race_result EXCEPT ![r] = built]
               /\ race_cache' = saved
               /\ race_written' = IF saveOk THEN built ELSE race_written
       /\ race_parts' = [race_parts EXCEPT ![r] = NoParts]
       /\ UNCHANGED notRace

RaceNext ==
    \/ \E r \in RaceRequests, getOk \in BOOLEAN : RaceLookup(r, getOk)
    \/ \E r \in RaceRequests : RaceBase(r)
    \/ \E r \in RaceRequests : RaceEvolve(r)
    \/ \E r \in RaceRequests,
          part \in {"question_answers", "question_contexts"} :
          RaceFinish(r, part)
    \/ \E r \in RaceRequests, saveOk \in BOOLEAN : RaceAssemble(r, saveOk)

\* ------------------------------------------------------------ cache mode
\* the keys of a run: one entry of the document cache, and the test key of
\* each health check, f"health_check:{int(time.time())}"
ModeKeys == {<<"docs", "a">>}

HealthKey(t) == <<"health_check", ToString(t)>>

ModeStoreKeys == ModeKeys \cup {HealthKey(t) : t \in 0..MaxTime}

\* the bytes written by setex(test_key, 10, "test")
TestBytes == [present |-> TRUE, payload |-> "bytes", value |-> "test"]

StatsVal(cache_type, enabled, error) ==
    [kind |-> "stats", cache_type |-> cache_type, cache_enabled |-> enabled,
     error |-> error]

HealthVal(cache_type, healthy) ==
    [kind |-> "health", cache_type |-> cache_type, healthy |-> healthy]

\* get_stats: INFO is sent in Redis mode; whatever it raises ends up in
\* stats["error"] and the mode stays as it is
get_stats(st, o) ==
    IF st.cache_enabled
    THEN Reply(st, StatsVal("redis", TRUE, o # "ok"), <<"info">>)
    ELSE Reply(st, StatsVal("memory", FALSE, FALSE), <<>>)

\* a manager that goes back to Redis when asked for its health
health_check_Reconnect(st, t, os) ==
    Reply([st EXCEPT !.cache_enabled = TRUE], HealthVal("redis", TRUE),
          <<"ping">>)

\* health_check: os are the outcomes of PING, SETEX, GET and DELETE (a PING
\* that is served answers True); the first command that raises ends the
\* check, and what was done before stays done
health_check(st, t, os) ==
    LET k == HealthKey(t)
        written == [st EXCEPT !.redis_store[k] = TestBytes]
        removed == [st EXCEPT !.redis_store[k] = Absent]
    IN IF st.cache_enabled
       THEN IF os[1] # "ok" THEN Reply(st, HealthVal("redis", FALSE), <<"ping">>)
            ELSE IF os[2] # "ok"
            THEN Reply(st, HealthVal("redis", FALSE), <<"ping", "setex">>)
            ELSE IF os[3] # "ok"
            THEN Reply(written, HealthVal("redis", FALSE),
                       <<"ping", "setex", "get">>)
            ELSE IF os[4] # "ok"
            THEN Reply(written, HealthVal("redis", FALSE),
                       <<"ping", "setex", "get", "delete">>)
            ELSE Reply(removed, HealthVal("redis", TRUE),
                       <<"ping", "setex", "get", "delete">>)
       ELSE Reply(st, HealthVal("memory", TRUE), <<>>)

ModeStore == [k \in ModeStoreKeys |-> Absent]

\* __init__: the ping is answered (Redis mode) or not (memory mode); Redis
\* may hold an entry written earlier
ModeInit ==
    /\ cache_enabled \in BOOLEAN
    /\ redis_store \in
           (IF cache_enabled
            THEN {ModeStore, [ModeStore EXCEPT ![<<"docs", "a">>] = Pickled("v1")]}
            ELSE {ModeStore})
    /\ memory_cache = ModeStore
    /\ now = 0
    /\ cm_ops = 0
    /\ last_op = NoOp

GetStats(o) ==
    /\ Sent(o)
    /\ Record("get_stats", <<"", "">>, "", 0, o, "ok", get_stats(CacheState, o))

HealthCheck(os) ==
    LET r == health_check(CacheState, now, os)
    IN /\ SentOnly(os, r)
       /\ Record("health_check", HealthKey(now), "", 0, os[1], os[2], r)

ModeNext ==
    \/ \E key \in ModeKeys, o \in RedisOutcomes, o2 \in RedisOutcomes :
          Get(key, o, o2)
    \/ \E key \in ModeKeys, value \in {"v1"}, ttl \in TTLs, o \in RedisOutcomes :
          Set(key, value, ttl, o)
    \/ \E key \in ModeKeys, o \in RedisOutcomes : Delete(key, o)
    \/ \E key \in ModeKeys, o \in RedisOutcomes : Exists(key, o)
    \/ \E prefix \in {"docs"}, o \in RedisOutcomes, o2 \in RedisOutcomes :
          ClearPrefix(prefix, o, o2)
    \/ \E o \in RedisOutcomes : GetStats(o)
    \/ \E os \in [1..4 -> RedisOutcomes] : HealthCheck(os)
    \/ Tick

\* ------------------------------------------------------------ rate limiter
MaxRlRequests == 4

MaxRlTime == 3

MaxLimit == 2

MaxWindow == 4

\* self.cleanup_interval = 300 and the cutoff of the cleanup, 3600 seconds,
\* in ticks of the clock: the default window, 3600, is then 2 ticks
cleanup_interval == 1

CleanupAge == 2

NoBucket == [present |-> FALSE]

\* {"tokens": burst, "last_refill": current_time, "requests": deque()}
NewBucket(burst, current_time) ==
    [present |-> TRUE, tokens |-> burst, last_refill |-> current_time,
     requests |-> <<>>]

\* while requests and requests[0] < cutoff_time: requests.popleft()
RECURSIVE PopOlder(_, _)
PopOlder(reqs, cutoff_time) ==
    IF reqs # <<>> /\ Head(reqs) < cutoff_time
    THEN PopOlder(Tail(reqs), cutoff_time) ELSE reqs

Decision(lim, allowed) == [lim |-> lim, allowed |-> allowed]

\* the bucket of the key after the cleanup
_cleanup_expired_entries(bucket, current_time) ==
    IF ~bucket.present THEN bucket
    ELSE LET kept == PopOlder(bucket.requests, current_time - CleanupAge)
         IN IF kept = <<>> /\ current_time - bucket.last_refill > CleanupAge
            THEN NoBucket
            ELSE [bucket EXCEPT !.requests = kept]

_local_rate_limit(lim, limit, window, burst, current_time) ==
    LET bucket == IF lim.bucket.present THEN lim.bucket
                  ELSE NewBucket(burst, current_time)
        kept == PopOlder(bucket.requests, current_time - window)
    IN IF Len(kept) < limit
       THEN Decision([lim EXCEPT !.bucket =
                          [bucket EXCEPT !.requests = Append(kept, current_time)]],
                     TRUE)
       ELSE Decision([lim EXCEPT !.bucket = [bucket EXCEPT !.requests = kept]],
                     FALSE)

\* the commands of the pipeline on the sorted set and what ZCARD answered:
\* ZREMRANGEBYSCORE key 0 expire_time, ZCARD, ZADD {str(t): t}; the EXPIRE
\* of window + 1 seconds only drops a set whose members have all expired
Pipeline(zset, window, current_time) ==
    LET expire_time == current_time - window
        kept == {s \in zset : ~(0 <= s /\ s <= expire_time)}
    IN [zset |-> kept \cup {current_time}, current_count |-> Cardinality(kept)]

\* o = "ok": the pipeline is executed; otherwise it raises and the local
\* limiter answers
_redis_rate_limit(lim, zset, limit, window, burst, current_time, o) ==
    IF ~lim.redis_client \/ o # "ok"
    THEN [d |-> _local_rate_limit(lim, limit, window, burst, current_time),
          zset |-> zset]
    ELSE LET p == Pipeline(zset, window, current_time)
         IN [d |-> Decision(lim, p.current_count < limit), zset |-> p.zset]

\* the clock read by the cleanup is the one read by is_allowed
is_allowed(lim, zset, limit, window, current_time, o) ==
    LET burst == limit
        cleaned ==
            IF current_time - lim.last_cleanup > cleanup_interval
            THEN [lim EXCEPT
                     !.bucket = _cleanup_expired_entries(lim.bucket, current_time),
                     !.last_cleanup = current_time]
            ELSE lim
    IN IF cleaned.redis_client
       THEN _redis_rate_limit(cleaned, zset, limit, window, burst, current_time, o)
       ELSE [d |-> _local_rate_limit(cleaned, limit, window, burst, current_time),
             zset |-> zset]

\* RateLimiter(redis_client), constructed at time 0
NewLimiter(redis_client) ==
    [redis_client |-> redis_client, bucket |-> NoBucket, last_cleanup |-> 0]

RlIdle ==
    /\ rl_cfg = [limit |-> 0, window |-> 0]
    /\ rl_now = 0
    /\ rl_zset = {}
    /\ rl_limiters = <<>>
    /\ rl_log = <<>>

RlInit ==
    /\ rl_cfg \in [limit : 1..MaxLimit, window : 1..MaxWindow]
    /\ rl_now = 0
    /\ rl_zset = {}
    /\ rl_limiters = [redis |-> NewLimiter(TRUE), local |-> NewLimiter(FALSE)]
    /\ rl_log = <<>>

\* a request for the key reaches both limiters at the same time
IsAllowed(o) ==
    LET a == is_allowed(rl_limiters.redis, rl_zset, rl_cfg.limit,
                        rl_cfg.window, rl_now, o)
        b == is_allowed(rl_limiters.local, {}, rl_cfg.limit,
                        rl_cfg.window, rl_now, "ok")
    IN /\ Len(rl_log) < MaxRlRequests
       /\ rl_limiters' = [redis |-> a.d.lim, local |-> b.d.lim]
       /\ rl_zset' = a.zset
       /\ rl_log' = Append(rl_log, [at |-> rl_now, outcome |-> o,
                                    redis |-> a.d.allowed,
                                    local |-> b.d.allowed])
       /\ UNCHANGED <<rl_cfg, rl_now, notRl>>

RlTick ==
    /\ rl_limiters # <<>>
    /\ rl_now < MaxRlTime
    /\ rl_now' = rl_now + 1
    /\ UNCHANGED <<rl_cfg, rl_zset, rl_limiters, rl_log, notRl>>

RlNext ==
    \/ \E o \in {"ok", "Error"} : IsAllowed(o)
    \/ RlTick

\* ------------------------------------------------------------ HTTP endpoints
MaxHttpRequests == 3

HTTP_503_SERVICE_UNAVAILABLE == 503

HTTP_500_INTERNAL_SERVER_ERROR == 500

\* an exception in flight: HTTPException and EvolSynthException carry a
\* status code, any other exception carries none
HTTPException(status_code) == [type |-> "HTTPException", status_code |-> status_code]

RateLimitError == [type |-> "EvolSynthException", status_code |-> 429]

OtherException == [type |-> "Exception", status_code |-> None]

Returns(model) == [ok |-> TRUE, value |-> model]

Raises(exc) == [ok |-> FALSE, value |-> exc]

\* global_exception_handler, and FastAPI's own handler of HTTPException: the
\* response carries the status code of the exception that left the endpoint
global_exception_handler(exc) ==
    IF exc.type = "EvolSynthException" THEN exc.status_code
    ELSE IF exc.type = "HTTPException" THEN exc.status_code
    ELSE 500

\* the try block of generate_synthetic_data (lines 409-491): its outcome and
\* the status entry it leaves for the request ("" for none)
GenerateBody(service, cacheAvailable, cached, outcome) ==
    IF ~service
    THEN [out |-> Raises(HTTPException(HTTP_503_SERVICE_UNAVAILABLE)), entry |-> ""]
    ELSE IF cacheAvailable /\ cached
    THEN [out |-> Returns("GenerationResponse"), entry |-> ""]
    ELSE IF outcome = "ok"
    THEN [out |-> Returns("GenerationResponse"), entry |-> "completed"]
    ELSE [out |-> Raises(OtherException), entry |-> "processing"]

\* generate_synthetic_data: `except Exception` takes whatever the try block
\* raised, HTTPException being an Exception, marks the request failed and
\* raises HTTPException(500)
generate_synthetic_data(service, cacheAvailable, cached, outcome) ==
    LET body == GenerateBody(service, cacheAvailable, cached, outcome)
    IN  IF body.out.ok
        THEN [out |-> body.out, entry |-> body.entry,
              raised |-> <<>>]
        ELSE [out |-> Raises(HTTPException(HTTP_500_INTERNAL_SERVER_ERROR)),
              entry |-> "failed",
              raised |-> <<body.out.value>>]

\* the try block of evaluate_synthetic_data (lines 535-549)
EvaluateBody(service, outcome) ==
    IF ~service
    THEN Raises(HTTPException(HTTP_503_SERVICE_UNAVAILABLE))
    ELSE IF outcome = "ok"
    THEN Returns("EvaluationResponse")
    ELSE Raises(OtherException)

\* evaluate_synthetic_data: the same `except Exception` around the try block
evaluate_synthetic_data(service, outcome) ==
    LET body == EvaluateBody(service, outcome)
    IN  IF body.ok
        THEN [out |-> body, raised |-> <<>>]
        ELSE [out |-> Raises(HTTPException(HTTP_500_INTERNAL_SERVER_ERROR)),
              raised |-> <<body.value>>]

\* what the client gets for the outcome of an endpoint
StatusOf(out) == IF out.ok THEN 200 ELSE global_exception_handler(out.value)

HttpIdle ==
    /\ app_state = "created"
    /\ CACHE_AVAILABLE = TRUE
    /\ evol_instruct_service = FALSE
    /\ evaluation_service = FALSE
    /\ generation_status = <<>>
    /\ http_log = <<>>

\* the module has been imported: the services are None until startup_event
HttpInit ==
    /\ app_state = "created"
    /\ CACHE_AVAILABLE \in BOOLEAN
    /\ evol_instruct_service = FALSE
    /\ evaluation_service = FALSE
    /\ generation_status = <<>>
    /\ http_log = <<>>

StartupSteps == <<"validate_api_keys", "EvolInstructService", "EvaluationService", "rest">>

\* startup_event: the services are bound in turn; an exception at any step is
\* printed and raised again, which ends the application
startup_event(failsAt) ==
    /\ app_state = "created"
    /\ http_log = <<>>
    /\ evol_instruct_service' = (failsAt > 2)
    /\ evaluation_service' = (failsAt > 3)
    /\ app_state' = IF failsAt > Len(StartupSteps) THEN "started" ELSE "exited"
    /\ UNCHANGED <<CACHE_AVAILABLE, generation_status, http_log>>
    /\ UNCHANGED notHttp

Serving == app_state \in {"created", "started"}

\* POST /generate: rate_limit_dependency, then the endpoint
PostGenerate(allowed, fast_mode, cached, outcome) ==
    /\ Serving
    /\ Len(http_log) < MaxHttpRequests
    /\ IF ~allowed
       THEN /\ http_log' = Append(http_log,
                [endpoint |-> "/generate", handled |-> FALSE,
                 service |-> evol_instruct_service, fast_mode |-> fast_mode,
                 raised |-> <<>>, status |-> global_exception_handler(RateLimitError)])
            /\ UNCHANGED generation_status
       ELSE LET r == generate_synthetic_data(evol_instruct_service,
                          CACHE_AVAILABLE, cached, outcome)
            IN  /\ http_log' = Append(http_log,
                    [endpoint |-> "/generate", handled |-> TRUE,
                     service |-> evol_instruct_service, fast_mode |-> fast_mode,
                     raised |-> r.raised, status |-> StatusOf(r.out)])
                /\ generation_status' =
                       IF r.entry = "" THEN generation_status
                       ELSE Append(generation_status, r.entry)
    /\ UNCHANGED <<app_state, CACHE_AVAILABLE, evol_instruct_service,
                   evaluation_service>>
    /\ UNCHANGED notHttp

\* POST /evaluate
PostEvaluate(outcome) ==
    /\ Serving
    /\ Len(http_log) < MaxHttpRequests
    /\ LET r == evaluate_synthetic_data(evaluation_service, outcome)
       IN  http_log' = Append(http_log,
               [endpoint |-> "/evaluate", handled |-> TRUE,
                service |-> evaluation_service, fast_mode |-> FALSE,
                raised |-> r.raised, status |-> StatusOf(r.out)])
    /\ UNCHANGED <<app_state, CACHE_AVAILABLE, evol_instruct_service,
                   evaluation_service, generation_status>>
    /\ UNCHANGED notHttp

HttpNext ==
    \/ \E failsAt \in 1..(Len(StartupSteps) + 1) : startup_event(failsAt)
    \/ \E allowed, fast_mode, cached \in BOOLEAN, outcome \in {"ok", "Error"} :
           PostGenerate(allowed, fast_mode, cached, outcome)
    \/ \E outcome \in {"ok", "Error"} : PostEvaluate(outcome)

\* ------------------------------------------------------------ specifications
EvalIdle ==
    /\ eval_call = [evolved_questions |-> <<>>, answered |-> {},
                    evaluation_metrics |-> <<>>]
    /\ detailed_results = <<>>
    /\ question_result = <<>>
    /\ metric_idx = 1
    /\ metric_scores = <<>>
    /\ eval_result = Pending
    /\ eval_log = <<>>

KeyIdle ==
    /\ key_calls = <<>>
    /\ cache_keys = <<>>

\* a generation request
Init == GenInit /\ CtxIdle /\ EvalIdle /\ KeyIdle /\ BatchIdle /\ CmIdle
        /\ CleanIdle /\ PoolIdle /\ ScoreIdle /\ RaceIdle /\ RlIdle
        /\ HttpIdle

Next == GenNext

Spec == Init /\ [][Next]_vars

\* the event loop and the worker pool run every task that can run
FairSpec == Spec /\ WF_vars(Next)

\* a call of one of the two context extractors
InitContext == CtxInit /\ GenIdle /\ EvalIdle /\ KeyIdle /\ BatchIdle /\ CmIdle
        /\ CleanIdle /\ PoolIdle /\ ScoreIdle /\ RaceIdle /\ RlIdle
        /\ HttpIdle

SpecContext == InitContext /\ [][CtxNext]_vars

\* two calls of _generate_cache_key
InitKey == KeyInit /\ GenIdle /\ CtxIdle /\ EvalIdle /\ BatchIdle /\ CmIdle
        /\ CleanIdle /\ PoolIdle /\ ScoreIdle /\ RaceIdle /\ RlIdle
        /\ HttpIdle

SpecKey == InitKey /\ [][KeyNext]_vars

\* a call of evaluate_synthetic_data
InitEval == EvalInit /\ GenIdle /\ CtxIdle /\ KeyIdle /\ BatchIdle /\ CmIdle
        /\ CleanIdle /\ PoolIdle /\ ScoreIdle /\ RaceIdle /\ RlIdle
        /\ HttpIdle

SpecEval == InitEval /\ [][EvalNext]_vars

\* a call of _extract_contexts_fast with one question
InitSelect == SelInit /\ GenIdle /\ EvalIdle /\ KeyIdle /\ BatchIdle /\ CmIdle
        /\ CleanIdle /\ PoolIdle /\ ScoreIdle /\ RaceIdle /\ RlIdle
        /\ HttpIdle

SpecSelect == InitSelect /\ [][SelNext]_vars

\* a call of _process_evolution_sync
InitBatch == BatchInit /\ GenIdle /\ CtxIdle /\ EvalIdle /\ KeyIdle /\ CmIdle
        /\ CleanIdle /\ PoolIdle /\ ScoreIdle /\ RaceIdle /\ RlIdle
        /\ HttpIdle

SpecBatch == InitBatch /\ [][BatchNext]_vars

\* a run of calls of one CacheManager
InitCache ==
    CmInit /\ GenIdle /\ CtxIdle /\ EvalIdle /\ KeyIdle /\ BatchIdle
        /\ CleanIdle /\ PoolIdle /\ ScoreIdle /\ RaceIdle /\ RlIdle
        /\ HttpIdle

SpecCache == InitCache /\ [][CmNext]_vars

\* two calls of _clean_boilerplate in a row
InitClean ==
    CleanInit /\ GenIdle /\ CtxIdle /\ EvalIdle /\ KeyIdle /\ BatchIdle
        /\ CmIdle /\ PoolIdle /\ ScoreIdle /\ RaceIdle /\ RlIdle /\ HttpIdle

SpecClean == InitClean /\ [][CleanNext]_vars

\* a run of calls of one SessionCache
InitSession ==
    SessionInit /\ GenIdle /\ CtxIdle /\ EvalIdle /\ KeyIdle /\ BatchIdle
        /\ CleanIdle /\ PoolIdle /\ ScoreIdle /\ RaceIdle /\ RlIdle
        /\ HttpIdle

SpecSession == InitSession /\ [][SessionNext]_vars

\* concurrent requests of one service process
InitPool ==
    PoolInit /\ GenIdle /\ CtxIdle /\ EvalIdle /\ KeyIdle /\ BatchIdle
        /\ CmIdle /\ CleanIdle /\ ScoreIdle /\ RaceIdle /\ RlIdle /\ HttpIdle

SpecPool == InitPool /\ [][PoolNext]_vars

\* a call of _extract_numerical_score
InitScore ==
    ScoreInit /\ GenIdle /\ CtxIdle /\ EvalIdle /\ KeyIdle /\ BatchIdle
        /\ CmIdle /\ CleanIdle /\ PoolIdle /\ RaceIdle /\ RlIdle /\ HttpIdle

SpecScore == InitScore /\ [][ScoreNext]_vars

\* two concurrent requests with the same cache key
InitRace ==
    RaceInit /\ GenIdle /\ CtxIdle /\ EvalIdle /\ KeyIdle /\ BatchIdle
        /\ CmIdle /\ CleanIdle /\ PoolIdle /\ ScoreIdle /\ RlIdle /\ HttpIdle

SpecRace == InitRace /\ [][RaceNext]_vars

\* a run of calls of one CacheManager, its statistics and health check included
InitMode ==
    ModeInit /\ GenIdle /\ CtxIdle /\ EvalIdle /\ KeyIdle /\ BatchIdle
        /\ CleanIdle /\ PoolIdle /\ ScoreIdle /\ RaceIdle /\ RlIdle
        /\ HttpIdle

SpecMode == InitMode /\ [][ModeNext]_vars

\* requests for one key, seen by a Redis-backed and by a local RateLimiter
InitRl ==
    RlInit /\ GenIdle /\ CtxIdle /\ EvalIdle /\ KeyIdle /\ BatchIdle
        /\ CmIdle /\ CleanIdle /\ PoolIdle /\ ScoreIdle /\ RaceIdle
        /\ HttpIdle

SpecRl == InitRl /\ [][RlNext]_vars

\* the application from import on: startup and requests to the two endpoints
InitHttp ==
    HttpInit /\ GenIdle /\ CtxIdle /\ EvalIdle /\ KeyIdle /\ BatchIdle
        /\ CmIdle /\ CleanIdle /\ PoolIdle /\ ScoreIdle /\ RaceIdle /\ RlIdle

SpecHttp == InitHttp /\ [][HttpNext]_vars

\* ------------------------------------------------------------ the results
Returned == pc = "done"

MatchCount(records, qid) ==
    Cardinality({i \in 1..Len(records) : records[i].question_id = qid})

\* exactly one answer and exactly one context record for every question
JoinIntegrity(r) ==
    \A i \in 1..Len(r.evolved_questions) :
        /\ MatchCount(r.question_answers, r.evolved_questions[i].id) = 1
        /\ MatchCount(r.question_contexts, r.evolved_questions[i].id) = 1

\* C1: in every result of the standard pipeline, every evolved question has
\* exactly one answer and exactly one context record with its id.
C1_JoinIntegrityStandard ==
    (Returned /\ mode = "standard") => JoinIntegrity(result.val)

\* C2: in every result of fast mode, every evolved question has exactly one
\* answer and exactly one context record with its id, and every answer refers
\* to a question of the result.
C2_JoinIntegrityFast ==
    (Returned /\ mode = "fast") =>
        /\ JoinIntegrity(result.val)
        /\ \A j \in 1..Len(result.val.question_answers) :
              \E i \in 1..Len(result.val.evolved_questions) :
                 result.val.evolved_questions[i].id
                     = result.val.question_answers[j].question_id

\* C3: the complexity level of every evolved question is the one of its
\* evolution type: simple 2, multi_context 3, reasoning 4, complex 5.
C3_ComplexityByType ==
    Returned =>
        \A i \in 1..Len(result.val.evolved_questions) :
            LET q == result.val.evolved_questions[i]
            IN q.complexity_level =
                  (CASE q.evolution_type = "simple_evolution" -> 2
                     [] q.evolution_type = "multi_context_evolution" -> 3
                     [] q.evolution_type = "reasoning_evolution" -> 4
                     [] q.evolution_type = "complex_evolution" -> 5)


\* C6: the standard pipeline returns as many answers as evolved questions, in
\* the order of the questions; the answer of a question whose LLM call raised
\* is the fixed text "Unable to generate answer based on provided context.",
\* and the answer of every other question is its own cleaned response,
\* whatever happened to the other calls of the batch.
C6_AnswerFallback ==
    (Returned /\ mode = "standard") =>
        LET r == result.val
        IN /\ Len(r.question_answers) = Len(r.evolved_questions)
           /\ \A i \in 1..Len(r.question_answers) :
                 /\ r.question_answers[i].question_id = r.evolved_questions[i].id
                 /\ from_cache =>
                       r.question_answers[i].answer =
                           <<W("Unable to generate answer based on provided context.")>>
                 /\ (~from_cache /\ Raised(answer_log[i].val)) =>
                       r.question_answers[i].answer =
                           <<W("Unable to generate answer based on provided context.")>>
                 /\ (~from_cache /\ ~Raised(answer_log[i].val)) =>
                       r.question_answers[i].answer =
                           _clean_boilerplate(answer_log[i].val.text)

\* a batch of two questions: the first call raised, the second did not
C6_Witness ==
    /\ Returned /\ mode = "standard" /\ ~from_cache
    /\ cfg.batch_size = 2
    /\ Len(result.val.question_answers) = 2
    /\ Raised(answer_log[1].val)
    /\ ~Raised(answer_log[2].val)
    /\ result.val.question_answers[2].answer = <<WP("Zeta", ".")>>

FourParts ==
    {"evolved_questions", "question_answers", "question_contexts",
     "performance_metrics"}

HasSentinel(r) ==
    \E i \in 1..Len(r.question_contexts) :
        \E j \in 1..Len(r.question_contexts[i].contexts) :
            r.question_contexts[i].contexts[j] \in {SyncSentinel, FastSentinel}

\* C8: a request with zero documents does not raise, and its result holds
\* the sentinel content that says no documents were available.
C8_ZeroDocumentsSentinel ==
    documents = <<>> =>
        /\ pc # "raised"
        /\ Returned => HasSentinel(result.val)


\* C10: each of the two context extractors returns one record per question, in
\* the order of the questions, and every record holds exactly one context.
C10_OneContextPerQuestion ==
    /\ \A i \in 1..Len(ctx_results) :
          /\ ctx_results[i].question_id = ctx_call.questions[i].id
          /\ Len(ctx_results[i].contexts) = 1
    /\ ctx_returned.done =>
          /\ Len(ctx_returned.val) = Len(ctx_call.questions)
          /\ \A i \in 1..Len(ctx_returned.val) :
                /\ ctx_returned.val[i].question_id = ctx_call.questions[i].id
                /\ Len(ctx_returned.val[i].contexts) = 1

\* the LLM path called with a question that two of the documents are relevant to
C10_Witness ==
    /\ ctx_returned.done
    /\ ctx_call.path = "sync"
    /\ ctx_call.documents = <<DocShortRel, DocLongRel>>
    /\ Len(ctx_call.questions) = 2
    /\ ctx_call.questions[1].question = QBorovia
    /\ ctx_returned.val[1].contexts[1].document_index = 0


\* C4: every value of overall_scores that evaluate_synthetic_data returns is
\* between 0.0 and 0.95.
C4_OverallScoresInRange ==
    eval_result.done =>
        \A m \in DOMAIN eval_result.val.overall_scores :
            LET score == eval_result.val.overall_scores[m]
            IN /\ score[2] > 0
               /\ 0 <= score[1]
               /\ 100 * score[1] <= 95 * score[2]

\* the judge answered "Score: 10" for the quality of the only question: the
\* raw score is 8.8, (8.8 - 1) / 8 is 0.975, and 0.95 is reported
C4_Witness ==
    /\ eval_result.done
    /\ Len(eval_call.evolved_questions) = 1
    /\ "question_quality" \in DOMAIN metric_scores
    /\ metric_scores["question_quality"] = <<88>>
    /\ eval_result.val.overall_scores["question_quality"] = <<76, 80>>

\* C5: every metric value of every entry of detailed_results is between 0.0
\* and 0.95 (in tenths: ten times the value is at most 95).
C5_DetailedScoresInRange ==
    eval_result.done =>
        \A i \in 1..Len(eval_result.val.detailed_results) :
            \A m \in DOMAIN eval_result.val.detailed_results[i].metrics :
                LET score == eval_result.val.detailed_results[i].metrics[m]
                IN 0 <= score /\ 10 * score <= 95


\* C9: two calls of _generate_cache_key return the same key exactly when they
\* were given the same list of document contents and the same settings.
C9_KeyEqualIffSameInputs ==
    (cache_keys # <<>> /\ cache_keys[1].done /\ cache_keys[2].done) =>
        ((cache_keys[1].val = cache_keys[2].val) <=> (key_calls[1] = key_calls[2]))

\* ------------------------------------------------------------ document selection
\* the relevance score of document i (from 1) for the question of the call
SelScore(i) ==
    _calculate_relevance_score(ctx_call.questions[1].question,
                               ctx_call.documents[i].page_content)

SelReturned ==
    /\ ctx_call.path = "fast"
    /\ ctx_returned.done
    /\ Len(ctx_call.questions) = 1
    /\ ctx_call.documents # <<>>

SelContext == ctx_returned.val[1].contexts[1]

\* C11: for a non-empty list of documents of any length the fast path tags the
\* context with the lowest-indexed document of the highest relevance score
\* among all the documents when some document scores above 0, and with the
\* first document when none does.
C11_BestOfAllDocuments ==
    SelReturned =>
        LET n == Len(ctx_call.documents)
            positive == {i \in 1..n : FracGT(SelScore(i), <<0, 1>>)}
            top == {i \in positive :
                       /\ \A j \in 1..n : ~FracGT(SelScore(j), SelScore(i))
                       /\ \A j \in 1..(i - 1) : FracGT(SelScore(i), SelScore(j))}
        IN IF positive = {} THEN SelContext.document_index = 0
           ELSE \E i \in top : SelContext.document_index = i - 1

\* the key terms of the question that occur in document i and in no other one
UniqueTerms(i) ==
    {t \in KeyTerms(ctx_call.questions[1].question) :
        /\ TermLen(t) > 2
        /\ TermCount(ctx_call.documents[i].page_content, t) > 0
        /\ \A j \in 1..Len(ctx_call.documents) :
              j # i => TermCount(ctx_call.documents[j].page_content, t) = 0}

\* C12: when a term of the question occurs in exactly one of three documents,
\* the fast path selects that document and names it as the source, whatever
\* the lengths of the documents, the position of the term and the other terms
\* of the question in the other two documents.
C12_UniqueTermDocumentSelected ==
    (SelReturned /\ Len(ctx_call.documents) = 3) =>
        \A i \in 1..3 :
            UniqueTerms(i) # {} =>
                /\ SelContext.document_index = i - 1
                /\ SelContext.source =
                       _get_document_title(ctx_call.documents[i], i - 1)

\* ------------------------------------------------------------ evolution batch
\* the questions of the batch that have a text, in batch order
WithText == SelectSeq(batch_call.question_batch, LAMBDA q : q.question # <<>>)

\* the outcomes of the LLM calls made for them, in the same order
OutcomesWithText ==
    LET idx == SelectSeq([i \in 1..Len(batch_outcomes) |-> i],
                         LAMBDA i : batch_call.question_batch[i].question # <<>>)
    IN [k \in 1..Len(idx) |-> batch_outcomes[idx[k]]]

\* C13: whatever calls fail in a batch, _process_evolution_sync returns one
\* evolved question for every base question that has a text, in batch order;
\* after a failed call it carries the original text unchanged, and after a
\* call that succeeded it is what the call alone determines (the cleaned
\* response), as when no call fails.
C13_BatchSurvivesFailures ==
    batch_returned.done =>
        /\ Len(batch_returned.val) = Len(WithText)
        /\ \A k \in 1..Len(WithText) :
              /\ k <= Len(batch_returned.val)
              /\ batch_returned.val[k].id = EvolvedId(WithText[k])
              /\ batch_returned.val[k].evolution_type = batch_call.evolution_type
              /\ batch_returned.val[k].question =
                     IF Raised(OutcomesWithText[k]) THEN WithText[k].question
                     ELSE _clean_boilerplate(OutcomesWithText[k].text)

\* a batch of three questions, the second without a text, in which the first
\* call failed and the last one succeeded
C13_Witness ==
    /\ batch_returned.done
    /\ Len(batch_call.question_batch) = 3
    /\ batch_call.question_batch[1].question # <<>>
    /\ batch_call.question_batch[2].question = <<>>
    /\ batch_call.question_batch[3].question # <<>>
    /\ Raised(batch_outcomes[1])
    /\ ~Raised(batch_outcomes[3])
    /\ Len(batch_returned.val) = 2

\* ------------------------------------------------------------ cache manager
\* the entry the memory cache held under the key of the last call
Held == last_op.before.memory_cache[last_op.key]

\* the bytes Redis held under the key of the last call
Stored == last_op.before.redis_store[last_op.key]

\* the last call was made in memory mode (from start-up or after a failover)
InMemoryMode(op) == last_op.op = op /\ ~last_op.before.cache_enabled

\* the last call was made in Redis mode and its first command ended as given
InRedisMode(op, o) ==
    last_op.op = op /\ last_op.before.cache_enabled /\ last_op.outcome = o

\* C14: in memory mode, once set(k, v, ttl) has returned True, get(k) returns
\* exactly v as long as the entry is not deleted, overwritten or expired
\* (an entry the memory cache holds was put there by such a set); and once
\* delete(k) has returned True, exists(k) is False.
C14_MemoryRoundTrip ==
    /\ (InMemoryMode("set") /\ last_op.result = BoolVal(TRUE)) =>
           memory_cache[last_op.key].present
    /\ (InMemoryMode("get") /\ Held.present /\ last_op.at <= Held.expiry) =>
           last_op.result = Value(Held.value)
    /\ (InMemoryMode("delete") /\ last_op.result = BoolVal(TRUE)) =>
           exists(CacheState, last_op.key, now, "ok").result = BoolVal(FALSE)

\* C15: a read that finds a payload that cannot be deserialized, whatever the
\* exception, is reported as a miss and the entry is removed from the store
\* (every Redis command of the call being served).
C15_CorruptEntryEvicted ==
    (/\ InRedisMode("get", "ok")
     /\ Stored.present
     /\ Stored.payload # "pickle"
     /\ last_op.outcome2 \in {"none", "ok"}) =>
        /\ last_op.result = NoneVal
        /\ ~redis_store[last_op.key].present

\* C16: a Redis connection error during get, set, delete, exists or
\* clear_prefix switches the manager to memory mode, the call returns a
\* value as usual, and it is answered from the memory cache: set stores
\* the entry under the key and returns True, get returns what the memory
\* cache holds under the key, or None.
C16_ConnectionErrorFailover ==
    (/\ last_op.op \in {"get", "set", "delete", "exists", "clear_prefix"}
     /\ last_op.before.cache_enabled
     /\ "ConnectionError" \in {last_op.outcome, last_op.outcome2}) =>
        /\ ~cache_enabled
        /\ last_op.result.kind \in {"None", "value", "entry", "bool", "int"}
        /\ last_op.op = "set" =>
               /\ last_op.result = BoolVal(TRUE)
               /\ memory_cache[last_op.key] =
                      MemEntry(last_op.value, last_op.at + last_op.ttl)
        /\ (last_op.op = "get" /\ last_op.outcome = "ConnectionError") =>
               last_op.result = MemoryGet(last_op.before.memory_cache, last_op.key)

\* a set that met a connection error and left its entry in the memory cache
C16_Witness ==
    /\ InRedisMode("set", "ConnectionError")
    /\ ~cache_enabled
    /\ memory_cache[last_op.key].present
    /\ last_op.result = BoolVal(TRUE)

\* C17: in memory mode an entry whose TTL has elapsed is not observable:
\* exists(k) returns False and removes it, and get(k) does not return its
\* value.
C17_ExpiredEntryNotObservable ==
    /\ (InMemoryMode("exists") /\ Held.present /\ last_op.at > Held.expiry) =>
           /\ last_op.result = BoolVal(FALSE)
           /\ ~memory_cache[last_op.key].present
    /\ (InMemoryMode("get") /\ Held.present /\ last_op.at > Held.expiry) =>
           last_op.result = NoneVal

\* the store the manager works on once the last call has returned, as it was
\* before the call and as it is now
ActiveBefore ==
    IF cache_enabled THEN last_op.before.redis_store
    ELSE last_op.before.memory_cache

ActiveNow == IF cache_enabled THEN redis_store ELSE memory_cache

MetricCap(metric) ==
    IF metric = "question_quality" THEN 88
    ELSE IF metric = "answer_accuracy" THEN 85 ELSE 87

Judged == {"question_quality", "answer_accuracy", "evolution_effectiveness"}

\* C19: whatever the judge answered, the raw score of a question for a metric
\* is between 1.0 and the cap of the metric: 8.8 for question_quality, 8.5 for
\* answer_accuracy, 8.7 for evolution_effectiveness; it is never 10.
C19_RawScoreWithinCap ==
    \A m \in DOMAIN metric_scores :
        m \in Judged =>
            \A i \in 1..Len(metric_scores[m]) :
                /\ 10 <= metric_scores[m][i]
                /\ metric_scores[m][i] <= MetricCap(m)
                /\ metric_scores[m][i] # 100

\* the judge's text gave 9.0, the highest score the extraction lets through,
\* for each of two metrics of a question, and each was cut to its own cap
C19_Witness ==
    /\ Len(eval_log) = 2
    /\ eval_log[1].metric = "answer_accuracy" /\ eval_log[1].raw_score = 90
    /\ eval_log[2].metric = "evolution_effectiveness" /\ eval_log[2].raw_score = 90
    /\ metric_scores["answer_accuracy"] = <<85>>
    /\ metric_scores["evolution_effectiveness"] = <<87>>

\* the raw score that entry k of the history stands for: the scores of a
\* metric are in the order of the questions
ScoreOf(k) ==
    LET m == eval_log[k].metric
        nth == Cardinality({j \in 1..k : eval_log[j].metric = m})
    IN metric_scores[m][nth]

\* C20: when the call of the judge raises for a question and a metric, the
\* raw score is 5.0 and evaluate_synthetic_data goes on and returns; every
\* other score is what its own call determines, as if no call had failed;
\* a question without an answer gets 2.0 for answer_accuracy and the judge
\* is not called for it.
C20_JudgeFailureIsolated ==
    /\ ~Escapes(eval_result)
    /\ \A k \in 1..Len(eval_log) :
          LET e == eval_log[k]
          IN /\ e.raised => ScoreOf(k) = 50
             /\ (e.invoked /\ ~e.raised) =>
                    ScoreOf(k) = Min(MetricCap(e.metric), e.raw_score)
             /\ (e.metric = "answer_accuracy"
                   /\ e.question_id \notin eval_call.answered) =>
                    ScoreOf(k) = 20 /\ ~e.invoked

\* a returned evaluation of two questions for answer_accuracy: the first has
\* an answer and its call raised, the second has no answer
C20_Witness ==
    /\ eval_result.done
    /\ Len(eval_log) = 2
    /\ eval_log[1].metric = "answer_accuracy" /\ eval_log[1].raised
    /\ eval_log[2].metric = "answer_accuracy" /\ ~eval_log[2].invoked
    /\ metric_scores["answer_accuracy"] = <<50, 20>>

\* C21: cleaning a cleaned text changes nothing: the second call of
\* _clean_boilerplate returns what the first one returned.
C21_CleanerIdempotent ==
    Len(clean_out) = 2 => clean_out[2] = clean_out[1]

\* the data the session had before the last call: the value of its entry in
\* the store the manager worked on
SessionBefore ==
    LET st == last_op.before
        e == IF st.cache_enabled THEN st.redis_store[SessionKey(last_op.session_id)]
             ELSE st.memory_cache[SessionKey(last_op.session_id)]
    IN IF e.present THEN e.value ELSE EmptyDict

\* what get_session_data returns for the session of the last call
SessionNow ==
    AsObject(get_session_data(CacheState, last_op.session_id, "ok", "ok").result)

ProgressFields == {"progress", "status", "last_update"}

\* the data the session has now: the value of its entry in the store the
\* manager works on
SessionStored ==
    LET e == IF cache_enabled THEN redis_store[SessionKey(last_op.session_id)]
             ELSE memory_cache[SessionKey(last_op.session_id)]
    IN IF e.present THEN e.value ELSE EmptyDict

\* the last call is an update_progress that returned True, every Redis
\* command it sent being served
UpdateServed ==
    /\ last_op.op = "update_progress"
    /\ last_op.result = BoolVal(TRUE)
    /\ \A i \in 1..Len(last_op.outcomes) : last_op.outcomes[i] = "ok"

\* C22: after update_progress(id, progress, status) the data stored for the
\* session has progress and status equal to the arguments and a last_update
\* field, every other field saved before keeps its value, and a session
\* without data gets just these three fields; for a session that had data,
\* get_session_data(id) returns the stored data.
C22_UpdateProgressFrame ==
    UpdateServed =>
        /\ ProgressFields \subseteq DOMAIN SessionStored
        /\ SessionStored["progress"] = last_op.data["progress"]
        /\ SessionStored["status"] = last_op.data["status"]
        /\ \A f \in DOMAIN SessionBefore \ ProgressFields :
               f \in DOMAIN SessionStored /\ SessionStored[f] = SessionBefore[f]
        /\ SessionBefore = EmptyDict => DOMAIN SessionStored = ProgressFields
        /\ SessionBefore # EmptyDict => SessionNow = SessionStored

\* a task of the slots completes in this step
Completes(slots, slotsNext) ==
    \E i \in 1..Len(slotsNext) :
        /\ slotsNext[i].done
        /\ IF i <= Len(slots) THEN ~slots[i].done ELSE TRUE

\* an evolution task completes in this step
EvolutionRuns ==
    \E t \in TypeIdx : Completes(evo_slots[t], evo_slots'[t])

\* C23: in a standard-mode request the stages are separated by all-complete
\* barriers: the evolution stage is entered, and an evolution task runs, only
\* once every base-question task has completed; the answer and context stage
\* is entered, and its tasks run, only once every task of the four evolution
\* branches has completed; the result is built and the cache written only
\* once every answer task and the context task have completed.
C23_StageBarriers ==
    [][mode = "standard" =>
          /\ (pc' = "evolve" /\ pc # "evolve") =>
                 /\ pc = "base"
                 /\ \A d \in 1..Len(base_slots) : base_slots[d].done
          /\ EvolutionRuns => pc = "evolve" /\ pc' = "evolve"
          /\ (pc' = "finish" /\ pc # "finish") =>
                 /\ pc = "evolve"
                 /\ \A t \in TypeIdx :
                        \A i \in 1..Len(evo_slots[t]) : evo_slots[t][i].done
          /\ (\/ Completes(answer_slots, answer_slots')
              \/ Completes(context_slots, context_slots')) =>
                 pc = "finish" /\ pc' = "finish"
          /\ ((result' # result /\ ~from_cache') \/ cache_entry' # cache_entry) =>
                 /\ pc = "finish"
                 /\ \A i \in 1..Len(answer_slots) : answer_slots[i].done
                 /\ \A i \in 1..Len(context_slots) : context_slots[i].done]_vars

\* a standard-mode request that went through the three stages with two
\* documents and returned a freshly built result
C23_Witness ==
    /\ mode = "standard" /\ pc = "done" /\ ~from_cache
    /\ Len(documents) = 2
    /\ Len(result.val.evolved_questions) = 2
    /\ Len(result.val.question_answers) = 2

\* the LLM calls in flight: in the worker threads and on the event loop thread
InFlight ==
    Cardinality({w \in DOMAIN executor_workers : executor_workers[w].invoking})
        + Cardinality({r \in DOMAIN requests : requests[r].pc = "invoking"})

\* C24: at no time are more than max_concurrency LLM calls in flight,
\* whatever the number of requests and their modes.
C24_LLMCallsBounded == InFlight <= max_concurrency

\* the number N of the first 'Score: N' of the text, None without one
ExplicitScore == FirstOfKind(score_call.evaluation_text, "score", 1)

\* C25: when the response has an explicit 'Score: N', the extracted score is
\* N clamped to [1, 9], whatever N is and whatever else the text contains.
C25_ExplicitScoreFirst ==
    (score_returned.done /\ ExplicitScore # None) =>
        score_returned.val = Max(10, Min(90, ExplicitScore))

\* the value is a result whose four parts were computed by one request
Whole(x) ==
    /\ x.done
    /\ DOMAIN x.val = FourParts
    /\ \E r \in RaceRequests \cup {0} : x.val = ResultBy(r)

BothFinished == \A r \in RaceRequests : race_pc[r] = "done"

\* C26: two concurrent requests with the same key each return a whole
\* result, their own or one that was in the cache when they looked; and once
\* both have finished, a cache that served a write holds exactly the value
\* of the last write, and whatever the cache holds is a whole result.
C26_LastWriteWins ==
    /\ \A r \in RaceRequests :
           race_pc[r] = "done" =>
               /\ Whole(race_result[r])
               /\ race_result[r].val \in
                      {ResultBy(r)} \cup {ResultBy(o) : o \in (RaceRequests \cup {0}) \ {r}}
    /\ BothFinished =>
           /\ race_written.done => race_cache = race_written
           /\ race_cache.done => Whole(race_cache)

\* both requests missed the cache, computed side by side and wrote one after
\* the other
C26_Witness ==
    /\ BothFinished
    /\ race_result[1] = Done(ResultBy(1))
    /\ race_result[2] = Done(ResultBy(2))
    /\ race_written = Done(ResultBy(1))
    /\ race_cache = Done(ResultBy(1))

\* what a call met in memory mode returned when the memory cache held
\* nothing under its key
MissReported(op) ==
    IF ~op.before.memory_cache[op.key].present
    THEN /\ op.op = "get" => op.result = NoneVal
         /\ op.op \in {"exists", "delete"} => op.result = BoolVal(FALSE)
    ELSE TRUE

\* C27: the switch to memory mode is one-way: a manager in memory mode stays
\* in memory mode over get, set, delete, exists, clear_prefix, get_stats and
\* health_check, sends no command to Redis, leaves what Redis holds as it
\* is, and reports an entry that only Redis holds as a miss, not an error.
C27_MemoryModeOneWay ==
    [][~cache_enabled =>
          /\ ~cache_enabled'
          /\ redis_store' = redis_store
          /\ last_op' # last_op =>
                 /\ last_op'.commands = <<>>
                 /\ last_op'.op \in {"get", "exists", "delete"} =>
                        MissReported(last_op')
                 /\ last_op'.op = "get_stats" => ~last_op'.result.error
                 /\ last_op'.op = "health_check" => last_op'.result.healthy]_vars

\* after a failover, a get of the key that only Redis holds was a miss
C27_Witness ==
    /\ last_op.op = "get"
    /\ ~last_op.before.cache_enabled
    /\ redis_store[last_op.key].present
    /\ ~memory_cache[last_op.key].present
    /\ last_op.result = NoneVal

\* every pipeline of the run was executed: the Redis-backed limiter never
\* fell back on its local buckets
RedisServed == \A j \in 1..Len(rl_log) : rl_log[j].outcome = "ok"

\* the requests the limiter granted within the window that ends with request i
GrantedInWindow(path, i) ==
    {j \in 1..i : /\ rl_log[j][path]
                  /\ rl_log[i].at - rl_cfg.window < rl_log[j].at}

\* C28: for a key with a fixed limit and window, the requests granted within
\* any interval of length window are at most limit, on the local path and
\* on the Redis path (every pipeline being executed).
C28_AtMostLimitPerWindow ==
    \A i \in 1..Len(rl_log) :
        /\ Cardinality(GrantedInWindow("local", i)) <= rl_cfg.limit
        /\ RedisServed => Cardinality(GrantedInWindow("redis", i)) <= rl_cfg.limit

\* C29: the Redis-backed limiter and the local limiter give the same
\* decisions for the same requests.
C29_RedisLocalEquivalent ==
    RedisServed => \A j \in 1..Len(rl_log) : rl_log[j].redis = rl_log[j].local

\* C30: a request that reaches the endpoint while its service is None ends
\* with HTTP 503, and whenever the try block of an endpoint raises an HTTP
\* error, the response carries that error's status code.
C30_UninitializedIs503 ==
    \A i \in 1..Len(http_log) :
        LET r == http_log[i]
        IN  /\ (r.handled /\ ~r.service) => r.status = 503
            /\ \A k \in 1..Len(r.raised) :
                   r.raised[k].type = "HTTPException"
                       => r.status = r.raised[k].status_code

====
